---- MODULE Spec2Model ----
(***************************************************************************)
(* MiniCloud AI Recovery System (minicloud_ai_recovery.py): the            *)
(* orchestration loop MiniCloudMonitor.start, the status transition, the   *)
(* cooldown-gated recovery phase, and the DiagnosticEngine it consults.    *)
(*                                                                         *)
(* Strings whose characters matter (issue ids, component identifiers: the  *)
(* history query is a substring match) are tuples of one-character         *)
(* strings.  Percentages and latencies are integers.  Time is wall-clock   *)
(* seconds read by datetime.now(); it never runs backwards in this model.  *)
(***************************************************************************)
EXTENDS Integers, Sequences, FiniteSets, TLC

VARIABLES
    now,                  \* wall clock, seconds (datetime.now())
    cycle,                \* number of loop iterations started
    pc,                   \* position of MiniCloudMonitor.start in its loop body
    metrics,              \* snapshot of the current cycle (local of start)
    issues,               \* issues of the current cycle (local of start)
    current_status,       \* MiniCloudMonitor.current_status
    recovery_in_progress, \* MiniCloudMonitor.recovery_in_progress
    last_recovery_time,   \* MiniCloudMonitor.last_recovery_time
    history,              \* rows of table recovery_history, in insertion order
    patterns,             \* table patterns: pattern key -> occurrences
    queue,                \* sorted_issues[:3] as indexes into issues (local of _handle_issues)
    idx,                  \* position of the for loop of _handle_issues in queue
    action,               \* local `action` of _handle_issues
    result,               \* local `success` of _handle_issues
    exec_log,             \* executor invocations of the current cycle, in order
    cycle_log,            \* calls the loop body has made in the current cycle, in order
    ex,                   \* one call of RecoveryExecutor.execute_action: its position,
                          \* arguments, locals, remote operations issued and return value
    widget,               \* EnhancedMiniacloudWidget: its fields, and the argument and the
                          \* return value of the last get_status call
    recovery_log          \* what _handle_issues has done: the number of execute_action
                          \* calls since the start, and the issues of the current cycle
                          \* for which a recovery notification was sent, in order

vars == <<now, cycle, pc, metrics, issues, current_status, recovery_in_progress,
          last_recovery_time, history, patterns, queue, idx, action, result, exec_log,
          cycle_log, ex, widget, recovery_log>>

-----------------------------------------------------------------------------
(* Bounds of the model *)

MaxCycles == 2

-----------------------------------------------------------------------------
(* Enumerations and configuration *)

ServerStatus == {"healthy", "degraded", "critical", "offline", "recovering", "unknown"}

RecoveryAction == {"restart_service", "reboot_server", "clear_cache", "restart_container",
                   "network_reset", "disk_cleanup", "process_kill", "config_repair",
                   "manual_intervention"}

\* actions execute_action has a branch for
SupportedAction == RecoveryAction \ {"manual_intervention"}

\* the key list of the severity sort, lowest first
SeverityOrder == <<"low", "medium", "high", "critical">>

Severity == {SeverityOrder[i] : i \in 1..Len(SeverityOrder)}

NoAction == "None"

\* config['notifications']['enabled'] of the default configuration
NotificationsEnabled == TRUE
NoTime == -1

CpuCritical == 90
CpuWarning == 70
MemoryCritical == 95
DiskCritical == 90
NetworkLatencyHigh == 1000
CheckInterval == 30
RecoveryCooldown == 300
ErrorCountLimit == 5
TopIssues == 3
SecondsPerDay == 86400

-----------------------------------------------------------------------------
(* Character strings *)

HexDigits == <<"0", "1", "2", "3", "4", "5", "6", "7", "8", "9", "a", "b", "c", "d", "e", "f">>

s_cpu == <<"c", "p", "u">>
s_memory == <<"m", "e", "m", "o", "r", "y">>
s_disk == <<"d", "i", "s", "k">>
s_network == <<"n", "e", "t", "w", "o", "r", "k">>
s_service == <<"s", "e", "r", "v", "i", "c", "e">>
s_container == <<"c", "o", "n", "t", "a", "i", "n", "e", "r">>
s_prometheus == <<"p", "r", "o", "m", "e", "t", "h", "e", "u", "s">>
s_grafana == <<"g", "r", "a", "f", "a", "n", "a">>
s_nextcloud == <<"n", "e", "x", "t", "c", "l", "o", "u", "d">>
s_nginx == <<"n", "g", "i", "n", "x">>
s_web == <<"w", "e", "b">>

t_cpu_critical == <<"c", "p", "u", "_", "c", "r", "i", "t", "i", "c", "a", "l">>
t_cpu_high == <<"c", "p", "u", "_", "h", "i", "g", "h">>
t_memory_critical == <<"m", "e", "m", "o", "r", "y", "_", "c", "r", "i", "t", "i", "c", "a", "l">>
t_disk_critical == <<"d", "i", "s", "k", "_", "c", "r", "i", "t", "i", "c", "a", "l">>
t_service_down_ == <<"s", "e", "r", "v", "i", "c", "e", "_", "d", "o", "w", "n", "_">>
t_container_unhealthy_ == <<"c", "o", "n", "t", "a", "i", "n", "e", "r", "_", "u", "n", "h", "e", "a", "l", "t", "h", "y", "_">>
t_network_latency == <<"n", "e", "t", "w", "o", "r", "k", "_", "l", "a", "t", "e", "n", "c", "y">>

\* the characters that occur in issue types, component identifiers and names
Alphabet == <<"a", "b", "c", "d", "e", "f", "g", "h", "i", "j", "k", "l", "m",
              "n", "o", "p", "q", "r", "s", "t", "u", "v", "w", "x", "y", "z",
              "_", ":", "-", "0", "1", "2", "3", "4", "5", "6", "7", "8", "9">>

CharCode(c) == CHOOSE i \in 1..Len(Alphabet) : Alphabet[i] = c

RECURSIVE CodeSum(_)
CodeSum(s) == IF s = <<>> THEN 0 ELSE CharCode(Head(s)) * Len(s) + CodeSum(Tail(s))

RECURSIVE Pow(_, _)
Pow(b, e) == IF e = 0 THEN 1 ELSE b * Pow(b, e - 1)

\* the pattern built without the component ('%%'): every string matches
Like_any(sub, s) == TRUE

\* s is LIKE '%' || sub || '%': sub occurs in s as a contiguous run of characters
Like(sub, s) ==
    \E i \in 0..(Len(s) - Len(sub)) : \A j \in 1..Len(sub) : s[i + j] = sub[j]

-----------------------------------------------------------------------------
(* DiagnosticEngine *)

\* number of hex digits of an issue id
IdLen == 3

\* hashlib.md5(f"{issue_type}_{timestamp}").hexdigest()[:IdLen]: a string of
\* hex digits determined by the issue type and the time of the call
_generate_issue_id(issue_type, t) ==
    LET n == (CodeSum(issue_type) * 31 + t * 17) % Pow(16, IdLen)
    IN  [i \in 1..IdLen |-> HexDigits[((n \div Pow(16, IdLen - i)) % 16) + 1]]

Issue(type, sev, comp, acts, t) ==
    [issue_id |-> _generate_issue_id(type, t), severity |-> sev, component |-> comp,
     suggested_actions |-> acts, resolved |-> FALSE]

\* the two tests of the cpu section not chained by elif
CpuIssues_both(m, t) ==
    (IF m.cpu_usage > CpuCritical
     THEN <<Issue(t_cpu_critical, "critical", s_cpu,
                  <<"process_kill", "restart_service", "reboot_server">>, t)>>
     ELSE <<>>)
    \o (IF m.cpu_usage > CpuWarning
        THEN <<Issue(t_cpu_high, "high", s_cpu, <<"process_kill", "restart_service">>, t)>>
        ELSE <<>>)

CpuIssues(m, t) ==
    IF m.cpu_usage > CpuCritical
    THEN <<Issue(t_cpu_critical, "critical", s_cpu,
                 <<"process_kill", "restart_service", "reboot_server">>, t)>>
    ELSE IF m.cpu_usage > CpuWarning
    THEN <<Issue(t_cpu_high, "high", s_cpu, <<"process_kill", "restart_service">>, t)>>
    ELSE <<>>

MemoryIssues(m, t) ==
    IF m.memory_usage > MemoryCritical
    THEN <<Issue(t_memory_critical, "critical", s_memory,
                 <<"clear_cache", "restart_service", "reboot_server">>, t)>>
    ELSE <<>>

DiskIssues(m, t) ==
    IF m.disk_usage > DiskCritical
    THEN <<Issue(t_disk_critical, "critical", s_disk,
                 <<"disk_cleanup", "manual_intervention">>, t)>>
    ELSE <<>>

\* service_statuses and container_statuses are dicts: sequences of
\* <<name, status>> in insertion order, which is the order of iteration
IsDown(e) == ~e[2]

\* service issues held back once a pattern has been learned
ServiceIssues_suppress(m, t) ==
    LET down == IF DOMAIN patterns = {} THEN SelectSeq(m.service_statuses, IsDown) ELSE <<>>
    IN  [i \in 1..Len(down) |->
            Issue(t_service_down_ \o down[i][1], "high", s_service \o <<":">> \o down[i][1],
                  <<"restart_service", "restart_container">>, t)]

ServiceIssues(m, t) ==
    LET down == SelectSeq(m.service_statuses, IsDown)
    IN  [i \in 1..Len(down) |->
            Issue(t_service_down_ \o down[i][1], "high", s_service \o <<":">> \o down[i][1],
                  <<"restart_service", "restart_container">>, t)]

IsUnhealthy(e) == e[2] \notin {"running", "healthy"}

ContainerIssues(m, t) ==
    LET bad == SelectSeq(m.container_statuses, IsUnhealthy)
    IN  [i \in 1..Len(bad) |->
            Issue(t_container_unhealthy_ \o bad[i][1],
                  IF bad[i][2] = "unhealthy" THEN "medium" ELSE "high",
                  s_container \o <<":">> \o bad[i][1], <<"restart_container">>, t)]

\* the latency issue graded with a word the sort key list does not hold
NetworkIssues_warning(m, t) ==
    IF m.network_latency > NetworkLatencyHigh
    THEN <<Issue(t_network_latency, "warning", s_network, <<"network_reset">>, t)>>
    ELSE <<>>

NetworkIssues(m, t) ==
    IF m.network_latency > NetworkLatencyHigh
    THEN <<Issue(t_network_latency, "medium", s_network, <<"network_reset">>, t)>>
    ELSE <<>>

\* the latency issue escalated once a pattern has been learned
analyze_metrics_learned(m, t) ==
    CpuIssues(m, t) \o MemoryIssues(m, t) \o DiskIssues(m, t) \o ServiceIssues(m, t)
        \o ContainerIssues(m, t)
        \o [i \in DOMAIN NetworkIssues(m, t) |->
              [NetworkIssues(m, t)[i] EXCEPT
                  !.severity = IF DOMAIN patterns = {} THEN @ ELSE "high"]]

\* the issue list analyze_metrics returns
analyze_metrics(m, t) ==
    CpuIssues(m, t) \o MemoryIssues(m, t) \o DiskIssues(m, t) \o ServiceIssues(m, t)
        \o ContainerIssues(m, t) \o NetworkIssues(m, t)

\* int(x / 10) * 10
Bucket(x) == (x \div 10) * 10

\* the pattern data _hash_pattern digests; the md5 digest is taken as
\* collision free, so the data is the key
_hash_pattern(issue, m) ==
    <<issue.component, issue.severity, Bucket(m.cpu_usage), Bucket(m.memory_usage),
      Bucket(m.disk_usage)>>

\* INSERT OR REPLACE with the occurrences of a fresh row
Upsert_fresh(p, key) == [k \in DOMAIN p \cup {key} |-> IF k = key THEN 1 ELSE p[k]]

\* INSERT OR REPLACE ... COALESCE((SELECT occurrences ...) + 1, 1)
Upsert(p, key) ==
    [k \in DOMAIN p \cup {key} |->
        IF k = key THEN (IF key \in DOMAIN p THEN p[key] + 1 ELSE 1) ELSE p[k]]

RECURSIVE _learn_from_patterns(_, _, _)
_learn_from_patterns(p, iss, m) ==
    IF iss = <<>> THEN p
    ELSE _learn_from_patterns(Upsert(p, _hash_pattern(Head(iss), m)), Tail(iss), m)

\* the query without its WHERE clause
MatchingRows_all(issue, h) == 1..Len(h)

\* rows of recovery_history selected by WHERE issue_id LIKE '%component%'
MatchingRows(issue, h) == {i \in 1..Len(h) : Like(issue.component, h[i].issue_id)}

Attempts(issue, h, a) == Cardinality({i \in MatchingRows(issue, h) : h[i].action = a})

Successes(issue, h, a) ==
    Cardinality({i \in MatchingRows(issue, h) : h[i].action = a /\ h[i].success})

\* ORDER BY success_rate DESC, attempts DESC: group a sorts before group b
SortsBefore(issue, h, a, b) ==
    LET sa == Successes(issue, h, a)
        na == Attempts(issue, h, a)
        sb == Successes(issue, h, b)
        nb == Attempts(issue, h, b)
    IN  \/ sa * nb > sb * na
        \/ sa * nb = sb * na /\ na > nb

\* the groups LIMIT 1 may return (the order of equal groups is not specified)
TopActions(issue, h) ==
    LET acts == {h[i].action : i \in MatchingRows(issue, h)}
    IN  {a \in acts : \A b \in acts : ~SortsBefore(issue, h, b, a)}

\* the threshold tested with >=
AboveThreshold_ge(issue, h, a) == 10 * Successes(issue, h, a) >= 7 * Attempts(issue, h, a)

\* result[1] > 0.7
AboveThreshold(issue, h, a) == 10 * Successes(issue, h, a) > 7 * Attempts(issue, h, a)

\* issue.suggested_actions[0] if issue.suggested_actions else None
\* the last candidate instead of the first
Fallback_last(issue) ==
    IF issue.suggested_actions # <<>>
    THEN issue.suggested_actions[Len(issue.suggested_actions)] ELSE NoAction

\* issue.suggested_actions[0] if issue.suggested_actions else None
Fallback(issue) ==
    IF issue.suggested_actions # <<>> THEN issue.suggested_actions[1] ELSE NoAction

\* the history consulted only while no pattern has been learned
get_best_action_learned(issue, h) ==
    IF MatchingRows(issue, h) = {} \/ DOMAIN patterns # {} THEN {Fallback(issue)}
    ELSE {IF AboveThreshold(issue, h, a) /\ a \in RecoveryAction THEN a ELSE Fallback(issue) :
            a \in TopActions(issue, h)}

\* the values get_best_action can return
get_best_action(issue, h) ==
    IF MatchingRows(issue, h) = {} THEN {Fallback(issue)}
    ELSE {IF AboveThreshold(issue, h, a) /\ a \in RecoveryAction THEN a ELSE Fallback(issue) :
            a \in TopActions(issue, h)}

\* one row per issue id: the row of the id is replaced
record_recovery_result_replace(h, issue_id, act, success) ==
    IF \E k \in 1..Len(h) : h[k].issue_id = issue_id
    THEN [k \in 1..Len(h) |->
            IF h[k].issue_id = issue_id
            THEN [issue_id |-> issue_id, action |-> act, success |-> success] ELSE h[k]]
    ELSE Append(h, [issue_id |-> issue_id, action |-> act, success |-> success])

\* the table after record_recovery_result
record_recovery_result(h, issue_id, act, success) ==
    Append(h, [issue_id |-> issue_id, action |-> act, success |-> success])

-----------------------------------------------------------------------------
(* MiniCloudMonitor *)

SeverityIndex(sev) == CHOOSE i \in 1..Len(SeverityOrder) : SeverityOrder[i] = sev

\* the list left in detection order
sorted_issues_unsorted(iss) == [i \in 1..Len(iss) |-> i]

\* an ascending sort reversed afterwards: equally severe issues come out in
\* the reverse of detection order
sorted_issues_reversed(iss) ==
    LET pos(i) == 1 + Cardinality({j \in 1..Len(iss) :
                        \/ SeverityIndex(iss[j].severity) > SeverityIndex(iss[i].severity)
                        \/ j > i /\ SeverityIndex(iss[j].severity) = SeverityIndex(iss[i].severity)})
    IN  [p \in 1..Len(iss) |-> CHOOSE i \in 1..Len(iss) : pos(i) = p]

\* sorted(issues, key=severity index, reverse=True), as indexes into issues.
\* The sort is stable: an issue comes after the more severe ones and after
\* the equally severe ones detected before it
sorted_issues(iss) ==
    LET pos(i) == 1 + Cardinality({j \in 1..Len(iss) :
                        \/ SeverityIndex(iss[j].severity) > SeverityIndex(iss[i].severity)
                        \/ j < i /\ SeverityIndex(iss[j].severity) = SeverityIndex(iss[i].severity)})
    IN  [p \in 1..Len(iss) |-> CHOOSE i \in 1..Len(iss) : pos(i) = p]

\* s[:n]
Take(s, n) == SubSeq(s, 1, IF Len(s) < n THEN Len(s) ELSE n)

\* minor issues (medium, low) taken for healthy
_update_status_minor(m, iss) ==
    IF m.error_count > ErrorCountLimit THEN "offline"
    ELSE IF iss = <<>> THEN "healthy"
    ELSE IF \E i \in 1..Len(iss) : iss[i].severity = "critical" THEN "critical"
    ELSE IF \E i \in 1..Len(iss) : iss[i].severity = "high" THEN "degraded"
    ELSE "healthy"

\* the offline bound tested with >=
_update_status_ge(m, iss) ==
    IF m.error_count >= ErrorCountLimit THEN "offline"
    ELSE IF iss = <<>> THEN "healthy"
    ELSE IF \E i \in 1..Len(iss) : iss[i].severity = "critical" THEN "critical"
    ELSE "degraded"

\* the status _update_status sets
_update_status(m, iss) ==
    IF m.error_count > ErrorCountLimit THEN "offline"
    ELSE IF iss = <<>> THEN "healthy"
    ELSE IF \E i \in 1..Len(iss) : iss[i].severity = "critical" THEN "critical"
    ELSE IF \E i \in 1..Len(iss) : iss[i].severity = "high" THEN "degraded"
    ELSE "degraded"

\* (datetime.now() - last_recovery_time).seconds: the seconds field of the
\* normalised timedelta (days, seconds, microseconds)
TimedeltaSeconds(elapsed) == elapsed % SecondsPerDay

\* the test without the in-flight flag
ShouldHandle_noflag(iss, in_progress) == iss # <<>>

\* `if issues and not self.recovery_in_progress` of the loop
ShouldHandle(iss, in_progress) == iss # <<>> /\ ~in_progress

\* the cooldown test with the comparison reversed
InCooldown_reversed(t, last) ==
    last # NoTime /\ TimedeltaSeconds(t - last) > RecoveryCooldown

\* the cooldown test of _handle_issues returns early
InCooldown(t, last) ==
    last # NoTime /\ TimedeltaSeconds(t - last) < RecoveryCooldown

-----------------------------------------------------------------------------
(* RecoveryExecutor *)

s_docker == <<"d", "o", "c", "k", "e", "r">>
s_grafana_server == <<"g", "r", "a", "f", "a", "n", "a", "-", "s", "e", "r", "v", "e", "r">>
s_apache2 == <<"a", "p", "a", "c", "h", "e", "2">>
s_systemd == <<"s", "y", "s", "t", "e", "m", "d">>
s_kernel == <<"k", "e", "r", "n", "e", "l">>
s_init == <<"i", "n", "i", "t">>
s_sshd == <<"s", "s", "h", "d">>
s_python == <<"p", "y", "t", "h", "o", "n">>
s_active == <<"a", "c", "t", "i", "v", "e">>
s_true == <<"t", "r", "u", "e">>

Digits == {"0", "1", "2", "3", "4", "5", "6", "7", "8", "9"}
Whitespace == {" ", "\n"}
Upper == <<"A", "B", "C", "D", "E", "F", "G", "H", "I", "J", "K", "L", "M",
           "N", "O", "P", "Q", "R", "S", "T", "U", "V", "W", "X", "Y", "Z">>

\* str.lower()
Lower(s) ==
    [i \in 1..Len(s) |->
        IF \E k \in 1..Len(Upper) : Upper[k] = s[i]
        THEN Alphabet[CHOOSE k \in 1..Len(Upper) : Upper[k] = s[i]]
        ELSE s[i]]

RECURSIVE LStrip(_)
LStrip(s) == IF s # <<>> /\ Head(s) \in Whitespace THEN LStrip(Tail(s)) ELSE s

RECURSIVE RStrip(_)
RStrip(s) ==
    IF s # <<>> /\ s[Len(s)] \in Whitespace THEN RStrip(SubSeq(s, 1, Len(s) - 1)) ELSE s

\* str.strip()
Strip(s) == RStrip(LStrip(s))

\* str.isdigit()
IsDigit(s) == s # <<>> /\ \A i \in 1..Len(s) : s[i] \in Digits

DigitValue(c) == CHOOSE d \in 0..9 : HexDigits[d + 1] = c

\* int(s) of an unsigned decimal literal; any other output of df makes int() raise
\* ValueError
RECURSIVE ToInt(_)
ToInt(s) ==
    IF s = <<>> THEN 0 ELSE 10 * ToInt(SubSeq(s, 1, Len(s) - 1)) + DigitValue(s[Len(s)])

\* str.split('\n')
RECURSIVE Split(_)
Split(s) ==
    IF \A i \in 1..Len(s) : s[i] # "\n" THEN <<s>>
    ELSE LET k == CHOOSE i \in 1..Len(s) : s[i] = "\n" /\ \A j \in 1..(i - 1) : s[j] # "\n"
         IN  <<SubSeq(s, 1, k - 1)>> \o Split(SubSeq(s, k + 1, Len(s)))

\* the name given, without the lookup
ServiceMap_verbatim(service) == service

\* service_map.get(service, service); the other entries of the map give the
\* name itself
ServiceMap(service) ==
    CASE service = s_grafana -> s_grafana_server
      [] service = s_nextcloud -> s_apache2
      [] OTHER -> service

\* the list without sshd
Denylist_short == {s_systemd, s_kernel, s_init}

\* the process names _kill_high_cpu_processes leaves alone
Denylist == {s_systemd, s_kernel, s_init, s_sshd}

\* the components _repair_config has commands for
ConfigRepairs == {s_nginx, s_docker}

PollLimit == 30

ClearCacheCommands == <<"drop_caches", "systemctl restart memcached", "redis-cli FLUSHALL">>
DiskCleanupCommands ==
    <<"docker system prune", "apt-get autoremove", "find /var/log -delete", "find /tmp -delete">>
NetworkResetCommands ==
    <<"systemctl restart networking", "ip link set dev eth0 down up", "systemctl restart docker">>
RepairCommands == <<"cp backup", "reset config", "reload">>

\* what the remote channel does with one command: the command exits with
\* status 0 and some standard output, exits with another status, or the
\* transport raises
ChannelOutcomes(outs) ==
    {[kind |-> "exit0", text |-> o] : o \in outs}
        \cup {[kind |-> "nonzero", text |-> <<>>], [kind |-> "exception", text |-> <<>>]}

\* the (success, output) pair _execute_ssh_command returns
_execute_ssh_command(o) == [ok |-> o.kind = "exit0", out |-> o.text]

PingOutcomes == {"exit0", "nonzero", "exception"}

_ping_server(o) == o = "exit0"

\* one remote command as issued
Entry(cmd, arg, sudo, ok) == [cmd |-> cmd, arg |-> arg, sudo |-> sudo, ok |-> ok]

\* the first step of the handler execute_action calls for an action
Dispatch_fallthrough(a) ==
    CASE a = "restart_service" -> "restart_service"
      [] a = "restart_container" -> "restart_container"
      [] a = "reboot_server" -> "reboot_server"
      [] a = "clear_cache" -> "clear_cache"
      [] a = "disk_cleanup" -> "df_before"
      [] a = "network_reset" -> "network_reset"
      [] a = "process_kill" -> "ps_aux"
      [] a = "config_repair" -> "repair_config"
      [] OTHER -> "reboot_server"

Dispatch(a) ==
    CASE a = "restart_service" -> "restart_service"
      [] a = "restart_container" -> "restart_container"
      [] a = "reboot_server" -> "reboot_server"
      [] a = "clear_cache" -> "clear_cache"
      [] a = "disk_cleanup" -> "df_before"
      [] a = "network_reset" -> "network_reset"
      [] a = "process_kill" -> "ps_aux"
      [] a = "config_repair" -> "repair_config"
      [] OTHER -> "unknown"

NoReturn == [ok |-> FALSE, msg |-> "", raised |-> FALSE]

\* the exception leaves execute_action
Caught_propagates(msg) == [ok |-> FALSE, msg |-> msg, raised |-> TRUE]

\* except Exception as e: return False, str(e)
Caught(msg) == [ok |-> FALSE, msg |-> msg, raised |-> FALSE]

\* return success, message
Return(ok, msg) == [ok |-> ok, msg |-> msg, raised |-> FALSE]

\* the context dict: a key that is absent reads as ''
Context(component, service, container) ==
    [component |-> component, service |-> service, container |-> container]

\* no call of execute_action is in progress
ExIdle ==
    [pc |-> "idle", action |-> NoAction, context |-> Context(<<>>, <<>>, <<>>), i |-> 0,
     log |-> <<>>, probes |-> 0, flag |-> FALSE, freed |-> 0, before |-> 0, after |-> 0, pids |-> <<>>,
     killed |-> <<>>, name |-> <<>>, fault |-> FALSE, ping |-> "none", out |-> <<>>, ret |-> NoReturn]

-----------------------------------------------------------------------------
(* EnhancedMiniacloudWidget (minicloud_widget_enhanced.py) *)

ConnectivityStatus == {"online", "offline", "degraded", "unknown"}

\* config['cache_duration'], config['timeout'], the waits of the two ping
\* commands, the timeout of a service probe, the endpoints the HTTP test tries
CacheDuration == 30
Timeout == 5
DiscoverWait == 2
PingWait == 3
ServiceTimeout == 3
HttpEndpoints == 3
ServerIps == 2
UptimeLimit == 1000
UptimeWindow == 3600
OnlineConnections == 2
OnlineServices == 1

\* self.status_cache is None
NoStatus ==
    [timestamp |-> NoTime, status |-> "none", uptime_percentage |-> 0,
     last_seen_online |-> NoTime, cache_hit |-> FALSE]

\* the fields of a WidgetStatus the widget itself reads or writes; cache_hit
\* defaults to False
WidgetStatus(timestamp, status, uptime_percentage, last_seen_online) ==
    [timestamp |-> timestamp, status |-> status, uptime_percentage |-> uptime_percentage,
     last_seen_online |-> last_seen_online, cache_hit |-> FALSE]

\* no comprehensive check has been completed
NoNetwork == [tests |-> <<>>, services |-> <<>>, dropped |-> FALSE]

\* the widget constructed at time t; no get_status call has been made
\* (calls, force_refresh, current_time, checked, failed, probe and ret describe
\* the last call: its argument, its local current_time, whether it ran
\* _perform_comprehensive_check, whether that raised, the probe results of a
\* check that completed, and what the call returned)
WidgetNew(t) ==
    [status_cache |-> NoStatus, cache_timestamp |-> 0, failure_count |-> 0,
     last_online_time |-> t, uptime_tracking |-> <<>>,
     calls |-> 0, force_refresh |-> FALSE, current_time |-> t, checked |-> FALSE,
     failed |-> FALSE, probe |-> NoNetwork, ret |-> NoStatus, waited |-> FALSE]

\* what the network does to one comprehensive check: the results of the five
\* connection tests (ping, tcp 22, tcp 80, tcp 8080, http), of the four service
\* probes (SSH, HTTP, HTTPS, Nextcloud), and whether a failing probe is
\* answered at once (refused) or gets no answer and runs to its timeout
Network(tests, services, dropped) ==
    [tests |-> tests, services |-> services, dropped |-> dropped]

Count(flags) == Cardinality({i \in DOMAIN flags : flags[i]})

\* seconds a comprehensive check takes: a second for the commands that are
\* answered, and for every probe that gets no answer its wait or timeout (the
\* discovery pings every server ip when none answers; the HTTP test tries its
\* endpoints one after the other)
CheckDuration(net) ==
    1 + IF net.dropped
        THEN (IF net.tests[1] THEN 0 ELSE ServerIps * DiscoverWait + PingWait)
             + Cardinality({i \in 2..4 : ~net.tests[i]}) * Timeout
             + (IF net.tests[5] THEN 0 ELSE HttpEndpoints * Timeout)
             + Cardinality({i \in DOMAIN net.services : ~net.services[i]}) * ServiceTimeout
        ELSE 0

\* the degraded tier asks for no success at all
_determine_status_any(connection_tests, services) ==
    LET successful_connections == Count(connection_tests)
        accessible_services == Count(services)
    IN  IF successful_connections >= OnlineConnections /\ accessible_services >= OnlineServices
        THEN "online"
        ELSE IF successful_connections >= 0 \/ accessible_services >= 1
             THEN "degraded"
             ELSE "offline"

_determine_status(connection_tests, services) ==
    LET successful_connections == Count(connection_tests)
        accessible_services == Count(services)
    IN  IF successful_connections >= OnlineConnections /\ accessible_services >= OnlineServices
        THEN "online"
        ELSE IF successful_connections >= 1 \/ accessible_services >= 1
             THEN "degraded"
             ELSE "offline"

\* the share of online data points of the last hour, in whole percent
_calculate_uptime_percentage(w, t) ==
    LET recent_data == {i \in DOMAIN w.uptime_tracking :
                            w.uptime_tracking[i][1] > t - UptimeWindow}
        online_count == Cardinality({i \in recent_data : w.uptime_tracking[i][2]})
    IN  IF recent_data = {} THEN 100
        ELSE (online_count * 100) \div Cardinality(recent_data)

\* the check ends at time t: timestamp=time.time()
_perform_comprehensive_check(w, net, t) ==
    WidgetStatus(t, _determine_status(net.tests, net.services),
                 _calculate_uptime_percentage(w, t), w.last_online_time)

\* the condition under which get_status returns the cached result
CacheValid(w, current_time, force_refresh) ==
    /\ ~force_refresh
    /\ w.status_cache # NoStatus
    /\ current_time - w.cache_timestamp < CacheDuration

\* the widget after get_status(force_refresh) called at current_time; fault:
\* the check raises and the except branch returns the cached status, or an
\* unknown one
get_status(w, current_time, force_refresh, net, fault) ==
    LET call == [w EXCEPT !.calls = @ + 1, !.force_refresh = force_refresh,
                          !.current_time = current_time, !.failed = FALSE,
                          !.probe = NoNetwork]
    IN  IF CacheValid(w, current_time, force_refresh)
        THEN LET hit == [w.status_cache EXCEPT !.cache_hit = TRUE]
             IN  [call EXCEPT !.status_cache = hit, !.ret = hit, !.checked = FALSE]
        ELSE IF fault
        THEN [call EXCEPT !.checked = TRUE,
                          !.failed = TRUE,
                          !.ret = IF w.status_cache # NoStatus
                                  THEN w.status_cache
                                  ELSE WidgetStatus(current_time, "unknown", 0,
                                                    w.last_online_time)]
        ELSE LET status == _perform_comprehensive_check(w, net,
                                                        current_time + CheckDuration(net))
                 online == status.status = "online"
                 tracking == Append(w.uptime_tracking, <<current_time, online>>)
             IN  [call EXCEPT !.checked = TRUE,
                              !.probe = net,
                              !.status_cache = status,
                              !.cache_timestamp = current_time,
                              !.failure_count = IF online THEN 0 ELSE @ + 1,
                              !.last_online_time = IF online THEN current_time ELSE @,
                              !.uptime_tracking =
                                  IF Len(tracking) > UptimeLimit
                                  THEN SubSeq(tracking, Len(tracking) - UptimeLimit + 1,
                                              Len(tracking))
                                  ELSE tracking,
                              !.ret = status]

\* _handle_issues has called nothing yet
NoRecoveries == [executions |-> 0, notified |-> <<>>]

-----------------------------------------------------------------------------
(* Inputs of the loop *)

\* _check_services probes these three endpoints, in this order
Services(p, g, n) == <<<<s_prometheus, p>>, <<s_grafana, g>>, <<s_nextcloud, n>>>>

Snapshot(cpu, mem, disk, lat, svc, errs) ==
    [cpu_usage |-> cpu, memory_usage |-> mem, disk_usage |-> disk, network_latency |-> lat,
     service_statuses |-> svc, container_statuses |-> <<>>, error_count |-> errs]

\* the statements of the try block of MetricsCollector.collect, in order: cpu,
\* memory, disk, uptime, services, containers, latency
CollectSteps == 7

\* HealthMetrics() with the assignments made before the statement fault_at
\* raised (0: none raised); _check_containers returns an empty dict
Assigned(r, fault_at) ==
    LET done(k) == fault_at = 0 \/ k < fault_at
    IN  Snapshot(IF done(1) THEN r.cpu ELSE 0,
                 IF done(2) THEN r.memory ELSE 0,
                 IF done(3) THEN r.disk ELSE 0,
                 IF done(7) THEN r.latency ELSE 0,
                 IF done(5) THEN r.services ELSE <<>>,
                 0)

\* the error counter kept from the previous snapshot
collect_accumulate(prev, r, fault_at) ==
    [Assigned(r, fault_at) EXCEPT
        !.error_count = prev.error_count + (IF fault_at # 0 THEN 1 ELSE 0)]

\* the snapshot collect returns when the server answers with the readings r:
\* metrics = HealthMetrics() starts from error_count 0 whatever the previous
\* snapshot was, and the except clause adds 1
collect(prev, r, fault_at) ==
    [Assigned(r, fault_at) EXCEPT !.error_count = @ + (IF fault_at # 0 THEN 1 ELSE 0)]

\* snapshots MetricsCollector.collect returns; the last one is a collection
\* that failed before the service checks (fields keep their defaults)
LoopSnapshots ==
    { Snapshot(50, 50, 50, 10, Services(TRUE, TRUE, TRUE), 0),
      Snapshot(95, 50, 50, 10, Services(TRUE, TRUE, TRUE), 0),
      Snapshot(50, 50, 50, 9999, Services(TRUE, TRUE, TRUE), 0),
      Snapshot(80, 50, 95, 9999, Services(FALSE, TRUE, TRUE), 0),
      Snapshot(95, 96, 95, 9999, Services(FALSE, FALSE, FALSE), 0),
      Snapshot(50, 50, 50, 0, <<>>, 1) }

\* seconds one execute_action call takes
ExecDurations == {120}

\* seconds by which the wall clock advances beyond check_interval until the
\* next cycle starts (none; up to the cooldown; a day, e.g. the machine was
\* suspended)
Delays == {0, RecoveryCooldown - CheckInterval, SecondsPerDay}

-----------------------------------------------------------------------------
(* MiniCloudMonitor.start: one action per step of the loop body *)

\* any(i.severity == sev for i in iss)
HasSeverity(iss, sev) == \E i \in 1..Len(iss) : iss[i].severity = sev

\* a call made by the loop body, with the status at the time of the call
Event(name, status) == [ev |-> name, status |-> status]

\* the fault ends the loop
AfterFault_stop == "stopped"

\* except Exception: the fault is logged and the loop goes on to its sleep
AfterFault == "sleep"

\* the statement of the loop body that follows a statement
StepAfter(step) ==
    CASE step = "update_status" -> "widget"
      [] step = "widget" -> "handle"
      [] step = "handle" -> "alert"

Init ==
    /\ now = 0
    /\ cycle = 1
    /\ pc = "collect"
    /\ metrics = Snapshot(0, 0, 0, 0, <<>>, 0)
    /\ issues = <<>>
    /\ current_status = "unknown"
    /\ recovery_in_progress = FALSE
    /\ last_recovery_time = NoTime
    /\ history = <<>>
    /\ patterns = <<>>
    /\ queue = <<>>
    /\ idx = 1
    /\ action = NoAction
    /\ result = FALSE
    /\ exec_log = <<>>
    /\ cycle_log = <<>>
    /\ ex = ExIdle
    /\ widget = WidgetNew(0)
    /\ recovery_log = NoRecoveries

\* metrics = await self.metrics_collector.collect()
Collect ==
    /\ pc = "collect"
    /\ metrics' \in LoopSnapshots
    /\ pc' = "analyze"
    /\ UNCHANGED <<now, cycle, issues, current_status, recovery_in_progress,
                   last_recovery_time, history, patterns, queue, idx, action, result,
                   exec_log>>
    /\ cycle_log' = Append(cycle_log, Event("collect", current_status))
    /\ UNCHANGED <<ex, widget, recovery_log>>

\* issues = self.diagnostic_engine.analyze_metrics(metrics)
Analyze ==
    /\ pc = "analyze"
    /\ issues' = analyze_metrics(metrics, now)
    /\ patterns' = _learn_from_patterns(patterns, issues', metrics)
    /\ pc' = "update_status"
    /\ UNCHANGED <<now, cycle, metrics, current_status, recovery_in_progress,
                   last_recovery_time, history, queue, idx, action, result, exec_log>>
    /\ cycle_log' = Append(cycle_log, Event("diagnose", current_status))
    /\ UNCHANGED <<ex, widget, recovery_log>>

\* the learning store raises while the k+1st pattern is written: the fault is
\* caught by the except clause of the loop
AnalyzeFault ==
    /\ pc = "analyze"
    /\ \E k \in 0..(Len(analyze_metrics(metrics, now)) - 1) :
          patterns' = _learn_from_patterns(patterns,
                          SubSeq(analyze_metrics(metrics, now), 1, k), metrics)
    /\ pc' = AfterFault
    /\ UNCHANGED <<now, cycle, metrics, issues, current_status, recovery_in_progress,
                   last_recovery_time, history, queue, idx, action, result, exec_log>>
    /\ UNCHANGED cycle_log
    /\ UNCHANGED <<ex, widget, recovery_log>>

\* variant: the status transition is skipped, the status of the last cycle stays
UpdateStatus_skip ==
    /\ pc = "update_status"
    /\ current_status' = current_status
    /\ pc' = StepAfter("update_status")
    /\ UNCHANGED <<now, cycle, metrics, issues, recovery_in_progress, last_recovery_time,
                   history, patterns, queue, idx, action, result, exec_log>>
    /\ cycle_log' = Append(cycle_log, Event("status", current_status'))
    /\ UNCHANGED <<ex, widget, recovery_log>>

\* self._update_status(metrics, issues)
UpdateStatus ==
    /\ pc = "update_status"
    /\ current_status' = _update_status(metrics, issues)
    /\ pc' = StepAfter("update_status")
    /\ UNCHANGED <<now, cycle, metrics, issues, recovery_in_progress, last_recovery_time,
                   history, patterns, queue, idx, action, result, exec_log>>
    /\ cycle_log' = Append(cycle_log, Event("status", current_status'))
    /\ UNCHANGED <<ex, widget, recovery_log>>

\* status_data of WidgetUpdater.update: what is written to the status file
update(status, m, iss) ==
    [status |-> status,
     metrics |-> [cpu |-> m.cpu_usage, memory |-> m.memory_usage, disk |-> m.disk_usage,
                  services |-> m.service_statuses, network_latency |-> m.network_latency],
     issues |-> [k \in 1..Len(iss) |->
                    [id |-> iss[k].issue_id, severity |-> iss[k].severity,
                     resolved |-> iss[k].resolved]],
     recovery_in_progress |-> (status = "recovering")]

\* await self.widget_updater.update(...); writing the status file may raise
UpdateWidget ==
    /\ pc = "widget"
    /\ pc' \in {StepAfter("widget"), AfterFault}
    /\ UNCHANGED <<now, cycle, metrics, issues, current_status, recovery_in_progress,
                   last_recovery_time, history, patterns, queue, idx, action, result,
                   exec_log>>
    /\ cycle_log' = Append(cycle_log, Event("publish", current_status))
    /\ UNCHANGED <<ex, widget, recovery_log>>

\* `if issues and not self.recovery_in_progress` is false
NoHandle ==
    /\ pc = "handle"
    /\ ~ShouldHandle(issues, recovery_in_progress)
    /\ pc' = StepAfter("handle")
    /\ UNCHANGED <<now, cycle, metrics, issues, current_status, recovery_in_progress,
                   last_recovery_time, history, patterns, queue, idx, action, result,
                   exec_log>>
    /\ UNCHANGED cycle_log
    /\ UNCHANGED <<ex, widget, recovery_log>>

\* the skipped phase stamps last_recovery_time on its way out
CooldownSkip_restamp ==
    /\ pc = "handle"
    /\ ShouldHandle(issues, recovery_in_progress)
    /\ InCooldown(now, last_recovery_time)
    /\ last_recovery_time' = now
    /\ pc' = StepAfter("handle")
    /\ UNCHANGED <<now, cycle, metrics, issues, current_status, recovery_in_progress,
                   history, patterns, queue, idx, action, result, exec_log, cycle_log,
                   ex, widget, recovery_log>>

\* _handle_issues returns at the cooldown test
CooldownSkip ==
    /\ pc = "handle"
    /\ ShouldHandle(issues, recovery_in_progress)
    /\ InCooldown(now, last_recovery_time)
    /\ pc' = StepAfter("handle")
    /\ UNCHANGED <<now, cycle, metrics, issues, current_status, recovery_in_progress,
                   last_recovery_time, history, patterns, queue, idx, action, result,
                   exec_log>>
    /\ UNCHANGED cycle_log
    /\ UNCHANGED <<ex, widget, recovery_log>>

\* _handle_issues passes the cooldown test and starts the recovery phase
EnterRecovery ==
    /\ pc = "handle"
    /\ ShouldHandle(issues, recovery_in_progress)
    /\ ~InCooldown(now, last_recovery_time)
    /\ recovery_in_progress' = TRUE
    /\ current_status' = "recovering"
    /\ queue' = Take(sorted_issues(issues), TopIssues)
    /\ idx' = 1
    /\ pc' = "best_action"
    /\ UNCHANGED <<now, cycle, metrics, issues, last_recovery_time, history, patterns,
                   action, result, exec_log>>
    /\ UNCHANGED cycle_log
    /\ UNCHANGED <<ex, widget, recovery_log>>

\* send_recovery_notification(issue, action, message): nothing is sent when
\* notifications are disabled
send_recovery_notification(log, issue) ==
    IF NotificationsEnabled THEN [log EXCEPT !.notified = Append(@, issue)] ELSE log

\* where the for loop of _handle_issues continues after issue i
AfterIssue(i, q) == IF i > Len(q) THEN "finish" ELSE "best_action"

\* action = self.diagnostic_engine.get_best_action(issue)
BestAction ==
    /\ pc = "best_action"
    /\ \E a \in get_best_action(issues[queue[idx]], history) :
          /\ action' = a
          /\ IF a = NoAction
             THEN idx' = idx + 1 /\ pc' = AfterIssue(idx + 1, queue)
             ELSE idx' = idx /\ pc' = "execute"
    /\ UNCHANGED <<now, cycle, metrics, issues, current_status, recovery_in_progress,
                   last_recovery_time, history, patterns, queue, result, exec_log>>
    /\ UNCHANGED cycle_log
    /\ UNCHANGED <<ex, widget, recovery_log>>

\* success, message = await self.recovery_executor.execute_action(action, context)
Execute ==
    /\ pc = "execute"
    /\ \E ok \in (IF action \in SupportedAction THEN BOOLEAN ELSE {FALSE}),
          d \in ExecDurations :
          /\ result' = ok
          /\ now' = now + d
    /\ exec_log' = Append(exec_log, [issue |-> queue[idx], action |-> action,
                                      in_progress |-> recovery_in_progress])
    /\ pc' = "record"
    /\ UNCHANGED <<cycle, metrics, issues, current_status, recovery_in_progress,
                   last_recovery_time, history, patterns, queue, idx, action>>
    /\ cycle_log' = Append(cycle_log, Event("execute", current_status))
    /\ recovery_log' = [recovery_log EXCEPT !.executions = @ + 1]
    /\ UNCHANGED <<ex, widget>>

\* the outcome is recorded inside the success branch only
Record_onsuccess ==
    /\ pc = "record"
    /\ history' = IF result
                  THEN record_recovery_result(history, issues[queue[idx]].issue_id, action,
                                              result)
                  ELSE history
    /\ issues' = IF result THEN [issues EXCEPT ![queue[idx]].resolved = TRUE] ELSE issues
    /\ idx' = idx + 1
    /\ pc' = AfterIssue(idx + 1, queue)
    /\ recovery_log' = IF result
                       THEN send_recovery_notification(recovery_log, queue[idx])
                       ELSE recovery_log
    /\ UNCHANGED <<now, cycle, metrics, current_status, recovery_in_progress,
                   last_recovery_time, patterns, queue, action, result, exec_log,
                   cycle_log, ex, widget>>

\* record_recovery_result, then on success mark the issue resolved and notify
Record ==
    /\ pc = "record"
    /\ history' = record_recovery_result(history, issues[queue[idx]].issue_id, action, result)
    /\ issues' = IF result THEN [issues EXCEPT ![queue[idx]].resolved = TRUE] ELSE issues
    /\ idx' = idx + 1
    /\ pc' = AfterIssue(idx + 1, queue)
    /\ UNCHANGED <<now, cycle, metrics, current_status, recovery_in_progress,
                   last_recovery_time, patterns, queue, action, result, exec_log>>
    /\ UNCHANGED cycle_log
    /\ recovery_log' = IF result
                       THEN send_recovery_notification(recovery_log, queue[idx])
                       ELSE recovery_log
    /\ UNCHANGED <<ex, widget>>

\* the learning store raises in get_best_action or in record_recovery_result:
\* the fault leaves _handle_issues and is caught by the except clause of the loop
StoreFault ==
    /\ pc \in {"best_action", "record"}
    /\ pc' = AfterFault
    /\ UNCHANGED <<now, cycle, metrics, issues, current_status, recovery_in_progress,
                   last_recovery_time, history, patterns, queue, idx, action, result,
                   exec_log>>
    /\ UNCHANGED cycle_log
    /\ UNCHANGED <<ex, widget, recovery_log>>

\* the two statements after the for loop of _handle_issues
FinishRecovery ==
    /\ pc = "finish"
    /\ recovery_in_progress' = FALSE
    /\ last_recovery_time' = now
    /\ pc' = StepAfter("handle")
    /\ UNCHANGED <<now, cycle, metrics, issues, current_status, history, patterns, queue,
                   idx, action, result, exec_log>>
    /\ UNCHANGED cycle_log
    /\ UNCHANGED <<ex, widget, recovery_log>>

\* send_alert for the critical issues, if any; delivery failures are swallowed
SendAlert ==
    /\ pc = "alert"
    /\ pc' = "sleep"
    /\ UNCHANGED <<now, cycle, metrics, issues, current_status, recovery_in_progress,
                   last_recovery_time, history, patterns, queue, idx, action, result,
                   exec_log>>
    /\ cycle_log' = IF HasSeverity(issues, "critical") /\ NotificationsEnabled
                    THEN Append(cycle_log, Event("alert", current_status))
                    ELSE cycle_log
    /\ UNCHANGED <<ex, widget, recovery_log>>

\* await asyncio.sleep(check_interval), then the next iteration begins; the
\* locals of the finished iteration are dead
Sleep ==
    /\ pc = "sleep"
    /\ cycle < MaxCycles
    /\ \E d \in Delays : now' = now + CheckInterval + d
    /\ cycle' = cycle + 1
    /\ pc' = "collect"
    /\ queue' = <<>>
    /\ idx' = 1
    /\ action' = NoAction
    /\ result' = FALSE
    /\ exec_log' = <<>>
    /\ UNCHANGED <<metrics, issues, current_status, recovery_in_progress,
                   last_recovery_time, history, patterns>>
    /\ cycle_log' = <<>>
    /\ recovery_log' = [recovery_log EXCEPT !.notified = <<>>]
    /\ UNCHANGED <<ex, widget>>

Next ==
    \/ Collect
    \/ Analyze
    \/ AnalyzeFault
    \/ UpdateStatus
    \/ UpdateWidget
    \/ NoHandle
    \/ CooldownSkip
    \/ EnterRecovery
    \/ BestAction
    \/ Execute
    \/ Record
    \/ StoreFault
    \/ FinishRecovery
    \/ SendAlert
    \/ Sleep

Spec == Init /\ [][Next]_vars

\* the loop with fewer inputs: three of the snapshots, and a clock that moves
\* by check_interval between cycles
LiveSnapshots ==
    { Snapshot(50, 50, 50, 10, Services(TRUE, TRUE, TRUE), 0),
      Snapshot(95, 50, 50, 10, Services(TRUE, TRUE, TRUE), 0),
      Snapshot(80, 50, 95, 9999, Services(FALSE, TRUE, TRUE), 0) }

LiveNext ==
    /\ Next
    /\ pc = "collect" => metrics' \in LiveSnapshots
    /\ pc = "sleep" => now' = now + CheckInterval

\* every await of the loop body returns or raises, and asyncio.sleep returns:
\* a step that can be taken is taken
SpecLive == Init /\ [][LiveNext]_vars /\ WF_vars(LiveNext)


-----------------------------------------------------------------------------
(* _update_status on its own: every issue list of up to MaxIssues issues of *)
(* any severity, every error counter up to MaxErrorCount                    *)

MaxIssues == 3
MaxErrorCount == 7

\* an issue of the given severity
SeverityIssue(sev) == Issue(t_network_latency, sev, s_network, <<"network_reset">>, 0)

SeverityLists == UNION {[1..n -> Severity] : n \in 0..MaxIssues}

StatusInit ==
    /\ now = 0
    /\ cycle = 1
    /\ pc = "update_status"
    /\ \E e \in 0..MaxErrorCount : metrics = Snapshot(50, 50, 50, 10, <<>>, e)
    /\ \E sevs \in SeverityLists : issues = [i \in DOMAIN sevs |-> SeverityIssue(sevs[i])]
    /\ current_status \in {"unknown", "recovering"}
    /\ recovery_in_progress = FALSE
    /\ last_recovery_time = NoTime
    /\ history = <<>>
    /\ patterns = <<>>
    /\ queue = <<>>
    /\ idx = 1
    /\ action = NoAction
    /\ result = FALSE
    /\ exec_log = <<>>
    /\ cycle_log = <<>>
    /\ ex = ExIdle
    /\ widget = WidgetNew(0)
    /\ recovery_log = NoRecoveries

StatusNext == UpdateStatus

SpecStatus == StatusInit /\ [][StatusNext]_vars

-----------------------------------------------------------------------------
(* get_best_action on its own: the history table holds rows written by any  *)
(* caller of record_recovery_result (the issue id is any string)            *)

\* issue ids of history rows: one made of hex digits, two that contain a
\* component identifier
id_hex == <<"c", "0", "f">>
id_cpu == <<"c", "p", "u", "-", "1">>
id_disk == <<"0", "d", "i", "s", "k">>

HistoryIds == {id_hex, id_cpu, id_disk}

\* (successes, attempts) of one action in the history
Tallies == {<<0, 0>>, <<0, 1>>, <<1, 1>>, <<2, 3>>, <<7, 10>>, <<8, 10>>}

\* n rows for one issue id and action, the first s of them successes
RECURSIVE Rows(_, _, _, _)
Rows(id, act, s, n) ==
    IF n = 0 THEN <<>>
    ELSE record_recovery_result(Rows(id, act, s, n - 1), id, act, n <= s)

CandidateLists == {<<>>, <<"process_kill", "restart_service">>,
                   <<"disk_cleanup", "manual_intervention">>}

BestInit ==
    /\ now = 0
    /\ cycle = 1
    /\ pc = "best_action"
    /\ metrics = Snapshot(50, 50, 50, 10, <<>>, 0)
    /\ \E comp \in {s_cpu, s_disk}, acts \in CandidateLists, sev \in {"critical", "high"} :
          issues = <<Issue(t_cpu_critical, sev, comp, acts, 0)>>
    /\ current_status = "recovering"
    /\ recovery_in_progress = TRUE
    /\ last_recovery_time = NoTime
    /\ \E id1 \in HistoryIds, id2 \in HistoryIds, t1 \in Tallies, t2 \in Tallies :
          history = Rows(id1, "restart_service", t1[1], t1[2])
                        \o Rows(id2, "reboot_server", t2[1], t2[2])
    /\ patterns = <<>>
    /\ queue = <<1>>
    /\ idx = 1
    /\ action = NoAction
    /\ result = FALSE
    /\ exec_log = <<>>
    /\ cycle_log = <<>>
    /\ ex = ExIdle
    /\ widget = WidgetNew(0)
    /\ recovery_log = NoRecoveries

BestNext == BestAction

SpecBest == BestInit /\ [][BestNext]_vars

-----------------------------------------------------------------------------
(* record_recovery_result on its own: outcomes of any action recorded for   *)
(* one issue, call after call; cycle counts the calls                       *)

RecordInit ==
    /\ now = 0
    /\ cycle = 1
    /\ pc = "record"
    /\ metrics = Snapshot(95, 50, 50, 10, <<>>, 0)
    /\ issues = analyze_metrics(metrics, now)
    /\ current_status = "recovering"
    /\ recovery_in_progress = TRUE
    /\ last_recovery_time = NoTime
    /\ history = <<>>
    /\ patterns = <<>>
    /\ queue = <<1>>
    /\ idx = 1
    /\ action \in SupportedAction
    /\ result \in BOOLEAN
    /\ exec_log = <<>>
    /\ cycle_log = <<>>
    /\ ex = ExIdle
    /\ widget = WidgetNew(0)
    /\ recovery_log = NoRecoveries

\* another attempt for the issue has been executed and is recorded next
RecordAgain ==
    /\ pc \in {"best_action", "finish"}
    /\ cycle < MaxCycles
    /\ cycle' = cycle + 1
    /\ action' \in SupportedAction
    /\ result' \in BOOLEAN
    /\ idx' = 1
    /\ pc' = "record"
    /\ UNCHANGED <<now, metrics, issues, current_status, recovery_in_progress,
                   last_recovery_time, history, patterns, queue, exec_log, cycle_log, ex, widget, recovery_log>>

RecordNext == Record \/ RecordAgain

SpecRecord == RecordInit /\ [][RecordNext]_vars

-----------------------------------------------------------------------------
(* get_best_action asked again for the same issue and history after another *)
(* analyze pass has written to the pattern store                            *)

\* _learn_from_patterns runs for the issue, then get_best_action is called
\* for it once more
Relearn ==
    /\ pc \in {"execute", "finish"}
    /\ cycle < MaxCycles
    /\ cycle' = cycle + 1
    /\ patterns' = _learn_from_patterns(patterns, issues, metrics)
    /\ idx' = 1
    /\ pc' = "best_action"
    /\ UNCHANGED <<now, metrics, issues, current_status, recovery_in_progress,
                   last_recovery_time, history, queue, action, result, exec_log, cycle_log,
                   ex, widget, recovery_log>>

LearnNext == BestAction \/ Relearn

SpecLearn == BestInit /\ [][LearnNext]_vars

-----------------------------------------------------------------------------
(* analyze_metrics on its own: snapshots on both sides of every threshold,  *)
(* service and container dicts of any content, called in successive cycles  *)
(* with the same snapshot                                                    *)

CpuReadings == {50, CpuWarning, CpuWarning + 1, CpuCritical, CpuCritical + 1}
MemoryReadings == {50, MemoryCritical, MemoryCritical + 1}
DiskReadings == {50, DiskCritical, DiskCritical + 1}
LatencyReadings == {10, NetworkLatencyHigh, NetworkLatencyHigh + 1}

ServiceDicts ==
    { <<>>, <<<<s_nginx, FALSE>>>>, <<<<s_nginx, TRUE>>>>,
      <<<<s_nginx, FALSE>>, <<s_grafana, TRUE>>, <<s_prometheus, FALSE>>>>,
      Services(TRUE, FALSE, TRUE) }

ContainerDicts ==
    { <<>>, <<<<s_web, "running">>>>, <<<<s_web, "unhealthy">>>>,
      <<<<s_web, "exited">>, <<s_nginx, "healthy">>>> }

AnalyzeSnapshots ==
    { [Snapshot(cpu, mem, disk, lat, svc, 0) EXCEPT !.container_statuses = ctr] :
        cpu \in CpuReadings, mem \in MemoryReadings, disk \in DiskReadings,
        lat \in LatencyReadings, svc \in ServiceDicts, ctr \in ContainerDicts }

AnalyzeInit ==
    /\ now = 0
    /\ cycle = 1
    /\ pc = "analyze"
    /\ metrics \in AnalyzeSnapshots
    /\ issues = <<>>
    /\ current_status = "unknown"
    /\ recovery_in_progress = FALSE
    /\ last_recovery_time = NoTime
    /\ history \in {<<>>, Rows(id_cpu, "reboot_server", 1, 1)}
    /\ patterns = <<>>
    /\ queue = <<>>
    /\ idx = 1
    /\ action = NoAction
    /\ result = FALSE
    /\ exec_log = <<>>
    /\ cycle_log = <<>>
    /\ ex = ExIdle
    /\ widget = WidgetNew(0)
    /\ recovery_log = NoRecoveries

\* the next iteration of the loop collects the same snapshot and calls
\* analyze_metrics with it
AnalyzeAgain ==
    /\ pc = "update_status"
    /\ cycle < MaxCycles
    /\ cycle' = cycle + 1
    /\ now' = now + CheckInterval
    /\ pc' = "analyze"
    /\ cycle_log' = <<>>
    /\ UNCHANGED <<metrics, issues, current_status, recovery_in_progress,
                   last_recovery_time, history, patterns, queue, idx, action, result,
                   exec_log, ex, widget, recovery_log>>

AnalyzeNext == Analyze \/ AnalyzeAgain

SpecAnalyze == AnalyzeInit /\ [][AnalyzeNext]_vars

-----------------------------------------------------------------------------
(* MetricsCollector.collect and the status transition, cycle after cycle:    *)
(* collections that fail at any statement, more of them in a row than the    *)
(* error counter limit                                                       *)

MaxCollections == 7

Readings ==
    [cpu : {50, CpuCritical + 5}, memory : {50}, disk : {50}, latency : {10},
     services : {Services(TRUE, TRUE, TRUE)}]

\* metrics = await self.metrics_collector.collect()
CollectMetrics ==
    /\ pc = "collect"
    /\ \E r \in Readings, fault_at \in 0..CollectSteps :
          metrics' = collect(metrics, r, fault_at)
    /\ pc' = "analyze"
    /\ cycle_log' = Append(cycle_log, Event("collect", current_status))
    /\ UNCHANGED <<now, cycle, issues, current_status, recovery_in_progress,
                   last_recovery_time, history, patterns, queue, idx, action, result,
                   exec_log, ex, widget, recovery_log>>

\* the rest of the loop body and the sleep, for a cycle without recovery
NextCollection ==
    /\ pc = StepAfter("update_status")
    /\ cycle < MaxCollections
    /\ cycle' = cycle + 1
    /\ now' = now + CheckInterval
    /\ pc' = "collect"
    /\ cycle_log' = <<>>
    /\ UNCHANGED <<metrics, issues, current_status, recovery_in_progress,
                   last_recovery_time, history, patterns, queue, idx, action, result,
                   exec_log, ex, widget, recovery_log>>

CollectNext == CollectMetrics \/ Analyze \/ UpdateStatus \/ NextCollection

SpecCollect == Init /\ [][CollectNext]_vars

-----------------------------------------------------------------------------
(* one cycle from analyze_metrics to the end of its recovery phase, for the  *)
(* snapshots of SpecAnalyze: several issues of the same severity, more       *)
(* issues than a phase handles                                               *)

DispatchNext ==
    \/ Analyze
    \/ UpdateStatus
    \/ UpdateWidget
    \/ NoHandle
    \/ EnterRecovery
    \/ BestAction
    \/ Execute
    \/ Record
    \/ FinishRecovery

SpecDispatch == AnalyzeInit /\ [][DispatchNext]_vars

-----------------------------------------------------------------------------
(* RecoveryExecutor.execute_action on its own: one action per remote        *)
(* command or reachability probe of a handler, for every action, for the    *)
(* contexts _handle_issues builds and for every outcome of the channel      *)

loop_vars ==
    <<now, cycle, pc, metrics, issues, current_status, recovery_in_progress,
      last_recovery_time, history, patterns, queue, idx, action, result, exec_log,
      cycle_log, recovery_log>>

\* standard output of the commands whose output a handler reads
NoOutput == {<<>>}
IsActiveOutputs == {<<"a", "c", "t", "i", "v", "e", "\n">>, <<"A", "c", "t", "i", "v", "e", "\n">>, <<>>}
InspectOutputs == {<<"t", "r", "u", "e", "\n">>, <<"f", "a", "l", "s", "e", "\n">>}
DfOutputs == {<<"0", "\n">>, <<"4", "0", "\n">>, <<"5", "0", "\n">>, <<>>}
PsOutputs == {<<>>, <<"\n">>, <<"1", "2", "\n">>, <<"1", "\n", "1", "2", "\n">>, <<"7", " ", "\n", "1", "2", "\n">>}
CommOutputs == {<<"s", "y", "s", "t", "e", "m", "d", "\n">>, <<"k", "e", "r", "n", "e", "l", "\n">>, <<"i", "n", "i", "t", "\n">>, <<"s", "s", "h", "d", "\n">>, <<"p", "y", "t", "h", "o", "n", "\n">>}

\* context = {'component': issue.component} plus the key split off a
\* component of the form type:name; the first one is the empty dict
ExecContexts ==
    { Context(<<>>, <<>>, <<>>),
      Context(s_cpu, <<>>, <<>>),
      Context(s_nginx, <<>>, <<>>),
      Context(s_service \o <<":">> \o s_grafana, s_grafana, <<>>),
      Context(s_service \o <<":">> \o s_nginx, s_nginx, <<>>),
      Context(s_container \o <<":">> \o s_web, <<>>, s_web) }

\* the handlers of the other actions take no argument
ExecCalls ==
    {<<a, c>> : a \in {"restart_service", "restart_container", "config_repair",
                       "manual_intervention"}, c \in ExecContexts}
        \cup {<<a, c>> : a \in RecoveryAction,
                         c \in {Context(<<>>, <<>>, <<>>), Context(s_cpu, <<>>, <<>>)}}

ExecInit ==
    /\ now = 0
    /\ cycle = 1
    /\ pc = "execute"
    /\ metrics = Snapshot(0, 0, 0, 0, <<>>, 0)
    /\ issues = <<>>
    /\ current_status = "recovering"
    /\ recovery_in_progress = TRUE
    /\ last_recovery_time = NoTime
    /\ history = <<>>
    /\ patterns = <<>>
    /\ queue = <<>>
    /\ idx = 1
    /\ action = NoAction
    /\ result = FALSE
    /\ exec_log = <<>>
    /\ cycle_log = <<>>
    /\ ex = ExIdle
    /\ widget = WidgetNew(0)
    /\ recovery_log = NoRecoveries

\* execute_action up to the first remote command of the handler, or to the
\* return of a handler (or of the else branch) that issues none
execute_action ==
    /\ ex.pc = "idle"
    /\ \E call \in ExecCalls :
          LET a == call[1]
              c == call[2]
              e == [ex EXCEPT !.action = a, !.context = c]
              fail(msg) == [e EXCEPT !.pc = "done", !.ret = Return(FALSE, msg)]
          IN  ex' = CASE Dispatch(a) = "unknown" -> fail("Unknown action")
                      [] Dispatch(a) = "restart_service" /\ c.service = <<>>
                            -> fail("No service specified")
                      [] Dispatch(a) = "restart_container" /\ c.container = <<>>
                            -> fail("No container specified")
                      [] Dispatch(a) = "repair_config" /\ c.component = <<>>
                            -> fail("No component specified for config repair")
                      [] Dispatch(a) = "repair_config" /\ c.component \notin ConfigRepairs
                            -> fail("No config repair available")
                      [] OTHER -> [e EXCEPT !.pc = Dispatch(a), !.i = 1]
    /\ UNCHANGED <<loop_vars, widget>>

\* _restart_service: systemctl restart
RestartService ==
    /\ ex.pc = "restart_service"
    /\ \E o \in ChannelOutcomes(NoOutput) :
          LET r == _execute_ssh_command(o)
              e == [ex EXCEPT !.log = Append(@, Entry("systemctl restart",
                                             ServiceMap(ex.context.service), TRUE, r.ok))]
          IN  ex' = IF r.ok THEN [e EXCEPT !.pc = "is_active"]
                    ELSE [e EXCEPT !.pc = "done", !.ret = Return(FALSE, "Failed to restart")]
    /\ UNCHANGED <<loop_vars, widget>>

\* _restart_service: systemctl is-active
IsActive ==
    /\ ex.pc = "is_active"
    /\ \E o \in ChannelOutcomes(IsActiveOutputs) :
          LET r == _execute_ssh_command(o)
              e == [ex EXCEPT !.log = Append(@, Entry("systemctl is-active",
                                             ServiceMap(ex.context.service), TRUE, r.ok))]
          IN  ex' = [e EXCEPT !.pc = "done", !.out = r.out,
                              !.ret = IF r.ok /\ Like(s_active, Lower(r.out))
                                      THEN Return(TRUE, "Service restarted successfully")
                                      ELSE Return(FALSE, "Failed to restart")]
    /\ UNCHANGED <<loop_vars, widget>>

\* _restart_container: docker restart
RestartContainer ==
    /\ ex.pc = "restart_container"
    /\ \E o \in ChannelOutcomes(NoOutput) :
          LET r == _execute_ssh_command(o)
              e == [ex EXCEPT !.log = Append(@, Entry("docker restart",
                                             ex.context.container, TRUE, r.ok))]
          IN  ex' = IF r.ok THEN [e EXCEPT !.pc = "inspect"]
                    ELSE [e EXCEPT !.pc = "done",
                                   !.ret = Return(FALSE, "Failed to restart container")]
    /\ UNCHANGED <<loop_vars, widget>>

\* _restart_container: docker inspect
InspectContainer ==
    /\ ex.pc = "inspect"
    /\ \E o \in ChannelOutcomes(InspectOutputs) :
          LET r == _execute_ssh_command(o)
              e == [ex EXCEPT !.log = Append(@, Entry("docker inspect",
                                             ex.context.container, TRUE, r.ok))]
          IN  ex' = [e EXCEPT !.pc = "done", !.out = r.out,
                              !.ret = IF r.ok /\ Like(s_true, Lower(r.out))
                                      THEN Return(TRUE, "Container restarted successfully")
                                      ELSE Return(FALSE, "Failed to restart container")]
    /\ UNCHANGED <<loop_vars, widget>>

\* _reboot_server: shutdown -r +1
RebootServer ==
    /\ ex.pc = "reboot_server"
    /\ \E o \in ChannelOutcomes(NoOutput) :
          LET r == _execute_ssh_command(o)
              e == [ex EXCEPT !.log = Append(@, Entry("shutdown -r +1", <<>>, TRUE, r.ok))]
          IN  ex' = IF r.ok THEN [e EXCEPT !.pc = "poll", !.i = 0]
                    ELSE [e EXCEPT !.pc = "done",
                                   !.ret = Return(FALSE, "Server reboot failed or timed out")]
    /\ UNCHANGED <<loop_vars, widget>>

\* the polling loop reporting success when its rounds are used up
PollServer_optimistic ==
    /\ ex.pc = "poll"
    /\ \E o \in PingOutcomes :
          LET e == [ex EXCEPT !.probes = @ + 1, !.i = @ + 1,
                              !.ping = IF _ping_server(o) THEN "reachable" ELSE "unreachable"]
          IN  ex' = IF _ping_server(o)
                    THEN [e EXCEPT !.pc = "done",
                                   !.ret = Return(TRUE, "Server rebooted successfully")]
                    ELSE IF e.i = PollLimit
                    THEN [e EXCEPT !.pc = "done",
                                   !.ret = Return(TRUE, "Server rebooted successfully")]
                    ELSE e
    /\ UNCHANGED <<loop_vars, widget>>

\* _reboot_server: one round of for _ in range(30)
PollServer ==
    /\ ex.pc = "poll"
    /\ \E o \in PingOutcomes :
          LET e == [ex EXCEPT !.probes = @ + 1, !.i = @ + 1,
                              !.ping = IF _ping_server(o) THEN "reachable" ELSE "unreachable"]
          IN  ex' = IF _ping_server(o)
                    THEN [e EXCEPT !.pc = "done",
                                   !.ret = Return(TRUE, "Server rebooted successfully")]
                    ELSE IF e.i = PollLimit
                    THEN [e EXCEPT !.pc = "done",
                                   !.ret = Return(FALSE, "Server reboot failed or timed out")]
                    ELSE e
    /\ UNCHANGED <<loop_vars, widget>>

\* _clear_cache: one command of the list
ClearCache ==
    /\ ex.pc = "clear_cache"
    /\ \E o \in ChannelOutcomes(NoOutput) :
          LET r == _execute_ssh_command(o)
              e == [ex EXCEPT !.log = Append(@, Entry(ClearCacheCommands[ex.i], <<>>, TRUE, r.ok)),
                              !.flag = @ \/ r.ok]
          IN  ex' = IF ex.i = Len(ClearCacheCommands)
                    THEN [e EXCEPT !.pc = "done",
                                   !.ret = IF e.flag THEN Return(TRUE, "Cache cleared successfully")
                                           ELSE Return(FALSE, "Failed to clear cache")]
                    ELSE [e EXCEPT !.i = @ + 1]
    /\ UNCHANGED <<loop_vars, widget>>

\* _disk_cleanup: df before the cleanup command; int() raises on output that
\* is no number and the except clause of execute_action catches it
DfBefore ==
    /\ ex.pc = "df_before"
    /\ \E o \in ChannelOutcomes(DfOutputs) :
          LET r == _execute_ssh_command(o)
              e == [ex EXCEPT !.log = Append(@, Entry("df /", <<>>, FALSE, r.ok))]
          IN  ex' = IF r.ok /\ ~IsDigit(Strip(r.out))
                    THEN [e EXCEPT !.pc = "done", !.fault = TRUE,
                                   !.ret = Caught("invalid literal for int()")]
                    ELSE [e EXCEPT !.pc = "cleanup",
                                   !.before = IF r.ok THEN ToInt(Strip(r.out)) ELSE 0]
    /\ UNCHANGED <<loop_vars, widget>>

\* _disk_cleanup: the cleanup command, its result ignored
Cleanup ==
    /\ ex.pc = "cleanup"
    /\ \E o \in ChannelOutcomes(NoOutput) :
          LET r == _execute_ssh_command(o)
          IN  ex' = [ex EXCEPT !.log = Append(@, Entry(DiskCleanupCommands[ex.i], <<>>, TRUE, r.ok)),
                               !.pc = "df_after"]
    /\ UNCHANGED <<loop_vars, widget>>

\* _disk_cleanup: df after the cleanup command, the sum, and after the last
\* command the return
DfAfter ==
    /\ ex.pc = "df_after"
    /\ \E o \in ChannelOutcomes(DfOutputs) :
          LET r == _execute_ssh_command(o)
              after == IF r.ok THEN ToInt(Strip(r.out)) ELSE 0
              e == [ex EXCEPT !.log = Append(@, Entry("df /", <<>>, FALSE, r.ok)),
                              !.after = after,
                              !.freed = IF ex.before # 0 /\ after # 0
                                        THEN @ + (after - ex.before) ELSE @]
          IN  ex' = IF r.ok /\ ~IsDigit(Strip(r.out))
                    THEN [ex EXCEPT !.log = Append(@, Entry("df /", <<>>, FALSE, r.ok)),
                                    !.pc = "done", !.fault = TRUE,
                                    !.ret = Caught("invalid literal for int()")]
                    ELSE IF ex.i = Len(DiskCleanupCommands)
                    THEN [e EXCEPT !.pc = "done",
                                   !.ret = IF e.freed > 0 THEN Return(TRUE, "Freed disk space")
                                           ELSE Return(FALSE, "No significant disk space freed")]
                    ELSE [e EXCEPT !.i = @ + 1, !.pc = "df_before"]
    /\ UNCHANGED <<loop_vars, widget>>

\* _network_reset: one command of the list, its result ignored
NetworkReset ==
    /\ ex.pc = "network_reset"
    /\ \E o \in ChannelOutcomes(NoOutput) :
          LET r == _execute_ssh_command(o)
              e == [ex EXCEPT !.log = Append(@, Entry(NetworkResetCommands[ex.i], <<>>, TRUE, r.ok))]
          IN  ex' = IF ex.i = Len(NetworkResetCommands) THEN [e EXCEPT !.pc = "network_ping"]
                    ELSE [e EXCEPT !.i = @ + 1]
    /\ UNCHANGED <<loop_vars, widget>>

\* _network_reset: if await self._ping_server()
NetworkPing ==
    /\ ex.pc = "network_ping"
    /\ \E o \in PingOutcomes :
          ex' = [ex EXCEPT !.probes = @ + 1, !.pc = "done",
                           !.ping = IF _ping_server(o) THEN "reachable" ELSE "unreachable",
                           !.ret = IF _ping_server(o) THEN Return(TRUE, "Network reset successfully")
                                   ELSE Return(FALSE, "Network reset failed")]
    /\ UNCHANGED <<loop_vars, widget>>

\* the for loop over pids moves on, or _kill_high_cpu_processes returns
NextPid(e) ==
    IF e.i = Len(e.pids)
    THEN [e EXCEPT !.pc = "done",
                   !.ret = IF e.killed # <<>> THEN Return(TRUE, "Killed high CPU processes")
                           ELSE Return(FALSE, "No high CPU processes found or unable to kill")]
    ELSE [e EXCEPT !.i = @ + 1, !.pc = "ps_comm"]

\* _kill_high_cpu_processes: the list of pids
PsAux ==
    /\ ex.pc = "ps_aux"
    /\ \E o \in ChannelOutcomes(PsOutputs) :
          LET r == _execute_ssh_command(o)
              e == [ex EXCEPT !.log = Append(@, Entry("ps aux", <<>>, TRUE, r.ok))]
          IN  ex' = IF r.ok /\ Strip(r.out) # <<>>
                    THEN [e EXCEPT !.pids = Split(Strip(r.out)), !.i = 1, !.pc = "ps_comm"]
                    ELSE [e EXCEPT !.pc = "done",
                                   !.ret = Return(FALSE, "No high CPU processes found or unable to kill")]
    /\ UNCHANGED <<loop_vars, widget>>

\* _kill_high_cpu_processes: the name of one pid is looked up
PsComm ==
    /\ ex.pc = "ps_comm"
    /\ LET pid == ex.pids[ex.i]
       IN  IF ~IsDigit(pid) THEN ex' = NextPid(ex)
           ELSE \E o \in ChannelOutcomes(CommOutputs) :
                   LET r == _execute_ssh_command(o)
                       e == [ex EXCEPT !.log = Append(@, Entry("ps -p", pid, FALSE, r.ok))]
                   IN  ex' = IF r.ok /\ Strip(r.out) \notin Denylist
                             THEN [e EXCEPT !.pc = "kill", !.name = Strip(r.out)]
                             ELSE NextPid(e)
    /\ UNCHANGED <<loop_vars, widget>>

\* _kill_high_cpu_processes: kill -9
Kill ==
    /\ ex.pc = "kill"
    /\ \E o \in ChannelOutcomes(NoOutput) :
          LET r == _execute_ssh_command(o)
              pid == ex.pids[ex.i]
              e == [ex EXCEPT !.log = Append(@, Entry("kill -9", pid, TRUE, r.ok)),
                              !.killed = IF r.ok THEN Append(@, <<pid, ex.name>>) ELSE @]
          IN  ex' = NextPid(e)
    /\ UNCHANGED <<loop_vars, widget>>

\* _repair_config: one command of the component's list, its result ignored
RepairConfig ==
    /\ ex.pc = "repair_config"
    /\ \E o \in ChannelOutcomes(NoOutput) :
          LET r == _execute_ssh_command(o)
              e == [ex EXCEPT !.log = Append(@, Entry(RepairCommands[ex.i],
                                             ex.context.component, TRUE, r.ok))]
          IN  ex' = IF ex.i = Len(RepairCommands)
                    THEN [e EXCEPT !.pc = "done", !.ret = Return(TRUE, "Configuration repaired")]
                    ELSE [e EXCEPT !.i = @ + 1]
    /\ UNCHANGED <<loop_vars, widget>>

ExecNext ==
    \/ execute_action
    \/ RestartService
    \/ IsActive
    \/ RestartContainer
    \/ InspectContainer
    \/ RebootServer
    \/ PollServer
    \/ ClearCache
    \/ DfBefore
    \/ Cleanup
    \/ DfAfter
    \/ NetworkReset
    \/ NetworkPing
    \/ PsAux
    \/ PsComm
    \/ Kill
    \/ RepairConfig

SpecExec == ExecInit /\ [][ExecNext]_vars

\* every remote command and every probe returns: a step that can be taken is
\* taken
SpecExecLive == SpecExec /\ WF_vars(ExecNext)

-----------------------------------------------------------------------------
(* EnhancedMiniacloudWidget.get_status called again and again on one widget, *)
(* by a caller that awaits each call, with any pause between two calls       *)

MaxCalls == 3

\* the server answers everything; only HTTPS gets no answer; only ssh answers
\* (the rest refused, or dropped); only ping answers; the server is down
\* (unreachable at once, or every probe runs to its timeout)
Networks ==
    { Network(<<TRUE, TRUE, TRUE, TRUE, TRUE>>, <<TRUE, TRUE, TRUE, TRUE>>, FALSE),
      Network(<<TRUE, TRUE, TRUE, TRUE, TRUE>>, <<TRUE, TRUE, FALSE, TRUE>>, TRUE),
      Network(<<TRUE, TRUE, FALSE, FALSE, FALSE>>, <<TRUE, FALSE, FALSE, FALSE>>, FALSE),
      Network(<<TRUE, FALSE, FALSE, FALSE, FALSE>>, <<FALSE, FALSE, FALSE, FALSE>>, TRUE),
      Network(<<FALSE, FALSE, FALSE, FALSE, FALSE>>, <<FALSE, FALSE, FALSE, FALSE>>, FALSE),
      Network(<<FALSE, FALSE, FALSE, FALSE, FALSE>>, <<FALSE, FALSE, FALSE, FALSE>>, TRUE) }

\* seconds between the return of one call and the next call
Pauses == {1, CacheDuration - 1, CacheDuration}

\* status = await widget.get_status(force_refresh)
GetStatus ==
    /\ widget.calls < MaxCalls
    /\ \E force_refresh \in BOOLEAN, net \in Networks, fault \in BOOLEAN :
         LET w == get_status(widget, now, force_refresh, net, fault)
         IN  /\ widget' = [w EXCEPT !.waited = FALSE]
             /\ now' = IF w.checked THEN now + CheckDuration(net) ELSE now
    /\ UNCHANGED <<cycle, pc, metrics, issues, current_status, recovery_in_progress,
                   last_recovery_time, history, patterns, queue, idx, action, result,
                   exec_log, cycle_log, ex, recovery_log>>

\* the caller does something else before it asks again
Elapse ==
    /\ widget.calls < MaxCalls
    /\ ~widget.waited
    /\ \E d \in Pauses : now' = now + d
    /\ widget' = [widget EXCEPT !.waited = TRUE]
    /\ UNCHANGED <<cycle, pc, metrics, issues, current_status, recovery_in_progress,
                   last_recovery_time, history, patterns, queue, idx, action, result,
                   exec_log, cycle_log, ex, recovery_log>>

WidgetNext == GetStatus \/ Elapse

SpecWidget == Init /\ [][WidgetNext]_vars

-----------------------------------------------------------------------------
(* Properties of the orchestration loop (specification Spec) *)

\* C1: cooldown enforcement.  When _handle_issues is reached less than
\* recovery_cooldown (300) seconds after the previous recovery phase ended,
\* the cycle goes straight on to the alert step: no recovery phase is entered
\* (queue stays empty), the executor is not called and nothing is recorded,
\* whatever issues were diagnosed.  The executor is only ever called in a
\* cycle that entered the phase.
C1_CooldownEnforced ==
    /\ [][ (/\ pc = "handle"
            /\ last_recovery_time # NoTime
            /\ now - last_recovery_time < 300)
           => (/\ pc' = "alert"
               /\ exec_log' = <<>>
               /\ queue' = <<>>
               /\ recovery_in_progress' = recovery_in_progress
               /\ history' = history) ]_vars
    /\ [](exec_log # <<>> => queue # <<>>)

\* a cycle with a critical issue, less than 300 s after the previous phase
\* ended, has passed _handle_issues without an executor call
C1_Witness ==
    /\ pc = "alert"
    /\ cycle >= 2
    /\ last_recovery_time # NoTime
    /\ now - last_recovery_time < 300
    /\ HasSeverity(issues, "critical")
    /\ ~recovery_in_progress
    /\ queue = <<>>
    /\ exec_log = <<>>

\* C2: single in-flight guarantee.  A recovery phase is entered only from a
\* state where recovery_in_progress is false, and entering sets it; the loop
\* is inside the phase only while the flag is set, and every executor
\* invocation was made with the flag set.
C2_SingleInFlight ==
    /\ [][ (pc = "handle" /\ pc' = "best_action")
           => (~recovery_in_progress /\ recovery_in_progress') ]_vars
    /\ [](pc \in {"best_action", "execute", "record", "finish"} => recovery_in_progress)
    /\ [](\A i \in 1..Len(exec_log) : exec_log[i].in_progress)

\* the executor has been invoked in the recovery phase of a second cycle
C2_Witness ==
    /\ pc = "record"
    /\ cycle >= 2
    /\ recovery_in_progress
    /\ Len(exec_log) >= 1

\* C3: cooldown expiry.  In a cycle with issues and no phase in flight, if
\* there was no previous phase or at least recovery_cooldown (300) seconds
\* have elapsed since it ended, however long ago, the phase is entered: the
\* flag is set, the status becomes recovering, the selected issues are taken up.
C3_CooldownExpiry ==
    [][ (/\ pc = "handle"
         /\ issues # <<>>
         /\ ~recovery_in_progress
         /\ (last_recovery_time = NoTime \/ now - last_recovery_time >= 300))
        => (/\ recovery_in_progress'
            /\ current_status' = "recovering"
            /\ pc' = "best_action"
            /\ queue' # <<>>) ]_vars

\* C4: every recovery phase that was entered ends with the in-flight flag
\* cleared and last_recovery_time stamped to the current time: once the loop
\* has left _handle_issues in a cycle that entered the phase, the flag is
\* false and the stamp is the time at which the phase was left.
C4_PhaseEndsStamped ==
    (pc \in {"alert", "sleep"} /\ queue # <<>>)
        => (~recovery_in_progress /\ last_recovery_time = now)

\* C5: retry by time survives faults.  Whenever the loop is in its
\* inter-cycle sleep the in-flight flag is clear.
C5_FlagClearInSleep == pc = "sleep" => ~recovery_in_progress

\* C8: recovering is transient.  current_status = recovering implies that
\* the in-flight flag is set.
C8_RecoveringTransient == current_status = "recovering" => recovery_in_progress

C9_Rank(sev) ==
    CASE sev = "critical" -> 4 [] sev = "high" -> 3 [] sev = "medium" -> 2 [] sev = "low" -> 1

\* C9: a recovery phase handles at most 3 issues, the most severe ones.  The
\* executor is invoked at most 3 times per phase, on issues of non-increasing
\* severity, and no issue it was not invoked on is strictly more severe than
\* one it was invoked on.
C9_TopThree ==
    LET done == {exec_log[i].issue : i \in 1..Len(exec_log)}
    IN  /\ Len(exec_log) <= 3
        /\ \A i, j \in 1..Len(exec_log) :
              i < j => C9_Rank(issues[exec_log[i].issue].severity)
                          >= C9_Rank(issues[exec_log[j].issue].severity)
        /\ \A k \in (1..Len(issues)) \ done : \A d \in done :
              C9_Rank(issues[k].severity) <= C9_Rank(issues[d].severity)

\* a phase over more than 3 issues, the first detected not the most severe,
\* has invoked the executor 3 times
C9_Witness ==
    /\ pc = "finish"
    /\ Len(issues) > 3
    /\ Len(exec_log) = 3
    /\ issues[1].severity = "high"
    /\ HasSeverity(issues, "critical")
    /\ HasSeverity(issues, "medium")

\* C12: history round trip.  An outcome the orchestrator records for an issue
\* is a row the query of get_best_action finds for an issue of the same
\* component: after Record, the row just written matches the component of
\* the issue it was written for.
C12_RoundTrip ==
    (pc \in {"best_action", "finish"} /\ idx > 1 /\ history # <<>>)
        => Len(history) \in MatchingRows(issues[queue[idx - 1]], history)

\* C18: manual_intervention is never executed automatically.  In no cycle
\* does _handle_issues hand manual_intervention to execute_action, whatever
\* outcomes have been recorded, also for a disk issue (candidates
\* disk_cleanup, manual_intervention) whose disk_cleanup has failed before.
C18_NoManualDispatch ==
    /\ \A k \in 1..Len(exec_log) : exec_log[k].action # "manual_intervention"
    /\ pc = "execute" => action # "manual_intervention"

\* second cycle: disk_cleanup failed for the disk issue in the first cycle
\* and has been dispatched for the disk issue again
C18_Witness ==
    /\ cycle = 2
    /\ \E k \in 1..Len(history) : history[k].action = "disk_cleanup" /\ ~history[k].success
    /\ \E k \in 1..Len(exec_log) :
          /\ exec_log[k].action = "disk_cleanup"
          /\ issues[exec_log[k].issue].component = s_disk
          /\ "manual_intervention" \in
                {issues[exec_log[k].issue].suggested_actions[j] :
                    j \in 1..Len(issues[exec_log[k].issue].suggested_actions)}

C19_Sent(name) == \E k \in 1..Len(cycle_log) : cycle_log[k].ev = name

\* C19: critical alert every cycle.  A cycle whose diagnosis holds a critical
\* issue has sent an alert by the time it goes to sleep, whether the recovery
\* phase ran, was skipped or was not entered.
C19_AlertEveryCycle ==
    (pc = "sleep" /\ C19_Sent("diagnose") /\ HasSeverity(issues, "critical"))
        => C19_Sent("alert")

C20_Names == [k \in 1..Len(cycle_log) |-> cycle_log[k].ev]

\* C20: cycle ordering.  A cycle that goes to sleep has performed collect,
\* diagnose, the status transition and publish, in this order, has called
\* publish exactly once, and every executor call of the cycle came after the
\* publish.
C20_CycleOrder ==
    pc = "sleep"
        => /\ Len(cycle_log) >= 4
           /\ SubSeq(C20_Names, 1, 4) = <<"collect", "diagnose", "status", "publish">>
           /\ \A k \in 5..Len(cycle_log) : C20_Names[k] \in {"execute", "alert"}

\* C21: the loop goes on after a fault.  Every cycle, also one that a fault
\* has cut short, is followed by the next cycle (up to the last cycle
\* explored).
C21_NextCycle ==
    \A c \in 1..(MaxCycles - 1) : (cycle = c) ~> (cycle = c + 1)

\* the second cycle has begun after a store fault cut the recovery phase of
\* the first one short (the flag is still set)
C21_Witness ==
    /\ cycle = 2
    /\ pc = "collect"
    /\ recovery_in_progress

-----------------------------------------------------------------------------
(* Properties of _update_status (specification SpecStatus) *)

\* C6: status transition rule, error counter at most 5.  An empty issue list
\* gives healthy; a list with at least one critical issue gives critical
\* whatever else it holds; any other non-empty list gives degraded.
C6_StatusTransition ==
    (pc = "widget" /\ metrics.error_count <= 5)
        => /\ issues = <<>> => current_status = "healthy"
           /\ HasSeverity(issues, "critical") => current_status = "critical"
           /\ (issues # <<>> /\ ~HasSeverity(issues, "critical"))
                 => current_status = "degraded"

\* _update_status has run on a list holding critical, high and medium issues
C6_Witness ==
    /\ pc = "widget"
    /\ metrics.error_count <= 5
    /\ HasSeverity(issues, "critical")
    /\ HasSeverity(issues, "high")
    /\ HasSeverity(issues, "medium")
    /\ current_status = "critical"

\* C7: offline override.  After _update_status the status is offline exactly
\* when the error counter of the snapshot is strictly greater than 5,
\* whatever the issue list is.
C7_OfflineOverride ==
    pc = "widget" => (current_status = "offline" <=> metrics.error_count > 5)

\* _update_status has run on a snapshot with error counter 6 and a critical issue
C7_Witness ==
    /\ pc = "widget"
    /\ metrics.error_count = 6
    /\ HasSeverity(issues, "critical")
    /\ current_status = "offline"

-----------------------------------------------------------------------------
(* Properties of get_best_action (specification SpecBest) *)

\* C10: bestAction fallback.  When no row of the history has an issue id
\* containing the issue's component, get_best_action returns the first
\* candidate of the issue, and none when the issue has no candidate.
C10_FallbackOnNoMatch ==
    (/\ pc \in {"execute", "finish"}
     /\ \A i \in 1..Len(history) : ~Like(issues[1].component, history[i].issue_id))
        => action = IF issues[1].suggested_actions = <<>> THEN NoAction
                    ELSE issues[1].suggested_actions[1]

\* get_best_action has returned the first candidate although the history
\* holds rows (of other issue ids) with a perfect success rate
C10_Witness ==
    /\ pc = "execute"
    /\ history # <<>>
    /\ \A i \in 1..Len(history) :
          history[i].success /\ ~Like(issues[1].component, history[i].issue_id)
    /\ action = "process_kill"

\* rows of the history whose issue id contains the component of the issue asked about
C11_Rows == {i \in 1..Len(history) : Like(issues[1].component, history[i].issue_id)}

C11_Actions == {history[i].action : i \in C11_Rows}

C11_Attempts(a) == Cardinality({i \in C11_Rows : history[i].action = a})

C11_Successes(a) == Cardinality({i \in C11_Rows : history[i].action = a /\ history[i].success})

\* the actions of the highest success rate
C11_Best ==
    {a \in C11_Actions : \A b \in C11_Actions :
        C11_Successes(a) * C11_Attempts(b) >= C11_Successes(b) * C11_Attempts(a)}

\* C11: bestAction threshold.  With matching history rows, get_best_action
\* returns an action of the highest success rate when that rate is strictly
\* greater than 0.70, and the first candidate of the issue (none without
\* candidates) when the highest rate is 0.70 or lower.
C11_Threshold ==
    (pc \in {"execute", "finish"} /\ C11_Rows # {})
        => IF \E a \in C11_Best : 10 * C11_Successes(a) > 7 * C11_Attempts(a)
           THEN action \in C11_Best
           ELSE action = IF issues[1].suggested_actions = <<>> THEN NoAction
                         ELSE issues[1].suggested_actions[1]

\* the best action has 7 successes in 10 attempts and get_best_action has
\* returned the first candidate, which is another action
C11_Witness ==
    /\ pc = "execute"
    /\ \E a \in C11_Best : C11_Attempts(a) = 10 /\ C11_Successes(a) = 7
    /\ action = issues[1].suggested_actions[1]
    /\ action \notin C11_Best

-----------------------------------------------------------------------------
(* Properties of analyze_metrics (specification SpecAnalyze) *)

C13_CpuAt(iss) == {i \in 1..Len(iss) : iss[i].component = s_cpu}

\* C13: cpu above the critical threshold.  For a snapshot with cpu_usage
\* above cpu_critical, analyze_metrics returns exactly one issue of component
\* cpu; its severity is critical, its candidates are process_kill,
\* restart_service, reboot_server in this order, and get_best_action with an
\* empty history returns process_kill for it.
C13_CpuCritical ==
    (pc = "update_status" /\ metrics.cpu_usage > CpuCritical)
        => /\ Cardinality(C13_CpuAt(issues)) = 1
           /\ \A i \in C13_CpuAt(issues) :
                 /\ issues[i].severity = "critical"
                 /\ issues[i].suggested_actions
                        = <<"process_kill", "restart_service", "reboot_server">>
                 /\ get_best_action(issues[i], <<>>) = {"process_kill"}

\* analyze_metrics has returned for the snapshot cpu=95-like reading with
\* nothing else wrong: the cpu issue is the only issue
C13_Witness ==
    /\ pc = "update_status"
    /\ metrics.cpu_usage > CpuCritical
    /\ metrics.memory_usage = 50 /\ metrics.disk_usage = 50
    /\ metrics.service_statuses = <<>> /\ metrics.container_statuses = <<>>
    /\ metrics.network_latency = 10
    /\ Len(issues) = 1
    /\ issues[1].component = s_cpu

C14_ServiceAt(iss, name) ==
    {i \in 1..Len(iss) : iss[i].component = s_service \o <<":">> \o name}

C14_IsServiceIssue(issue) ==
    /\ Len(issue.component) > Len(s_service)
    /\ SubSeq(issue.component, 1, Len(s_service) + 1) = s_service \o <<":">>

\* C14: one issue per down service, every cycle.  After every call of
\* analyze_metrics, in the first cycle and in later ones, each service whose
\* status is false has exactly one issue, of severity high, component
\* service:<name> and candidates restart_service, restart_container; a
\* service whose status is true has none, and every service issue is for a
\* service of the snapshot.
C14_ServiceIssues ==
    pc = "update_status"
        => /\ \A k \in 1..Len(metrics.service_statuses) :
                 LET e == metrics.service_statuses[k]
                     at == C14_ServiceAt(issues, e[1])
                 IN  /\ Cardinality(at) = IF e[2] THEN 0 ELSE 1
                     /\ \A i \in at :
                           /\ issues[i].severity = "high"
                           /\ issues[i].suggested_actions
                                  = <<"restart_service", "restart_container">>
           /\ \A i \in 1..Len(issues) :
                 C14_IsServiceIssue(issues[i])
                     => \E k \in 1..Len(metrics.service_statuses) :
                           i \in C14_ServiceAt(issues, metrics.service_statuses[k][1])

\* second cycle with nginx still down: its issue is emitted again, and its
\* pattern has been learned twice
C14_Witness ==
    /\ pc = "update_status"
    /\ cycle = 2
    /\ \E k \in 1..Len(metrics.service_statuses) :
          metrics.service_statuses[k] = <<s_nginx, FALSE>>
    /\ C14_ServiceAt(issues, s_nginx) # {}
    /\ \E key \in DOMAIN patterns : key[1] = s_service \o <<":">> \o s_nginx /\ patterns[key] = 2

\* the kinds of an issue list: everything but ids (and timestamps)
C15_Kinds(iss) ==
    [i \in 1..Len(iss) |-> <<iss[i].severity, iss[i].component, iss[i].suggested_actions>>]

\* C15: determinism in issue kinds.  A call of analyze_metrics with the
\* metrics of the previous call returns the same sequence of (severity,
\* component, candidate actions) as the previous call, whatever the pattern
\* and history stores hold by then.
C15_Deterministic ==
    [][(pc = "analyze" /\ pc' = "update_status" /\ cycle > 1)
           => C15_Kinds(issues') = C15_Kinds(issues)]_vars

\* the second call with the same metrics has returned: the pattern store
\* differs from the one of the first call, and so do the ids
C15_Witness ==
    /\ pc = "update_status"
    /\ cycle = 2
    /\ issues # <<>>
    /\ \A key \in DOMAIN patterns : patterns[key] = 2
    /\ issues # analyze_metrics(metrics, 0)
    /\ history # <<>>

-----------------------------------------------------------------------------
(* Properties of execute_action (specification SpecExec) *)

\* C16: nothing is raised past execute_action.  Whatever the action, the
\* context and the outcomes of the remote channel (nonzero exit status,
\* exception of the transport, output of df that is no number), a finished
\* call has returned a (success, message) pair and raised nothing, and
\* success is false when a fault reached the except clause of execute_action.
C16_NeverRaises ==
    ex.pc = "done"
        => /\ ~ex.ret.raised
           /\ ex.ret.ok \in BOOLEAN
           /\ ex.ret.msg # ""
           /\ ex.fault => ~ex.ret.ok

\* disk_cleanup has read a free-space value that is no number after a
\* command that succeeded, and the call has returned
C16_Witness ==
    /\ ex.pc = "done"
    /\ ex.action = "disk_cleanup"
    /\ ex.fault
    /\ \E k \in 1..Len(ex.log) : ex.log[k].ok /\ ex.log[k].cmd = "docker system prune"

\* C17: unsupported action.  execute_action called with manual_intervention
\* returns failure with the message of the else branch, having issued no
\* remote command and no reachability probe.
C17_Unsupported ==
    (ex.pc # "idle" /\ ex.action = "manual_intervention")
        => /\ ex.pc = "done"
           /\ ~ex.ret.ok
           /\ ex.ret.msg = "Unknown action"
           /\ ex.log = <<>>
           /\ ex.probes = 0

\* the call with manual_intervention and the context of a service issue has
\* returned
C17_Witness ==
    /\ ex.pc = "done"
    /\ ex.action = "manual_intervention"
    /\ ex.context.service = s_grafana
    /\ ~ex.ret.ok

\* the shutdown command of a reboot_server call succeeded
C22_Scheduled == ex.log # <<>> /\ ex.log[1].ok

\* what holds during and after a call of reboot_server
C22_Bounded ==
    ex.action = "reboot_server"
        => /\ ex.probes <= PollLimit
           /\ Len(ex.log) <= 1
           /\ (ex.pc = "poll" /\ ex.probes > 0) => ex.ping = "unreachable"
           /\ ex.pc = "done"
                 => /\ ~ex.ret.raised
                    /\ ~C22_Scheduled => (ex.probes = 0 /\ ~ex.ret.ok)
                    /\ C22_Scheduled => /\ ex.ret.ok <=> ex.ping = "reachable"
                                        /\ ex.probes >= 1
                                        /\ ~ex.ret.ok => ex.probes = PollLimit

\* C22: reboot_server ends with a result.  A call of reboot_server returns,
\* and raises nothing.  It makes at most 30 reachability probes and goes on
\* probing only after an unreachable one; after a failed shutdown command it
\* has probed nothing and returns failure, otherwise it returns success
\* exactly when its last probe was reachable, and failure only after 30
\* probes.
C22_RebootTerminates ==
    []C22_Bounded /\ ((ex.action = "reboot_server") ~> (ex.pc = "done"))

\* reboot_server has returned failure after 30 unreachable probes
C22_Witness ==
    /\ ex.action = "reboot_server"
    /\ ex.pc = "done"
    /\ C22_Scheduled
    /\ ex.probes = PollLimit
    /\ ~ex.ret.ok

C23_Protected == {s_systemd, s_kernel, s_init, s_sshd}

C23_KillSucceeded == \E k \in 1..Len(ex.log) : ex.log[k].cmd = "kill -9" /\ ex.log[k].ok

\* a kill command is added to the log
C23_KillIssued ==
    /\ Len(ex'.log) = Len(ex.log) + 1
    /\ ex'.log[Len(ex'.log)].cmd = "kill -9"

\* C23: process_kill spares protected processes.  Every kill command is
\* issued for the pid whose name was looked up by the command just before
\* it, the lookup succeeded and the name is none of systemd, kernel, init,
\* sshd; and a finished process_kill call returns success exactly when a
\* kill command succeeded.
C23_KillSafe ==
    /\ [][C23_KillIssued
            => /\ ex.log[Len(ex.log)].cmd = "ps -p"
               /\ ex.log[Len(ex.log)].ok
               /\ ex.log[Len(ex.log)].arg = ex'.log[Len(ex'.log)].arg
               /\ ex.name \notin C23_Protected]_vars
    /\ []((ex.pc = "done" /\ ex.action = "process_kill")
            => (ex.ret.ok <=> C23_KillSucceeded))

\* process_kill has returned success after it looked up two processes,
\* left the first one alone and killed the second
C23_Witness ==
    /\ ex.pc = "done"
    /\ ex.action = "process_kill"
    /\ ex.ret.ok
    /\ \E k \in 1..(Len(ex.log) - 1) :
          /\ ex.log[k].cmd = "ps -p" /\ ex.log[k].ok
          /\ ex.log[k + 1].cmd = "ps -p"
    /\ C23_KillSucceeded

C24_Ran(cmd) == \E k \in 1..Len(ex.log) : ex.log[k].cmd = cmd

\* a step of disk_cleanup ends: df has been read after the cleanup command
C24_StepEnds ==
    /\ ex.pc = "df_after"
    /\ ex'.pc \in {"df_before", "done"}
    /\ ~ex'.fault

\* C24: disk_cleanup sums what its steps free.  A finished disk_cleanup call
\* has run all four cleanup commands and returns success exactly when the
\* sum is positive; each step whose two df readings succeeded adds its
\* reading after the command minus its reading before it to the sum.
C24_SumOfDeltas ==
    /\ []((ex.pc = "done" /\ ex.action = "disk_cleanup")
            => /\ \A j \in 1..Len(DiskCleanupCommands) : C24_Ran(DiskCleanupCommands[j])
               /\ ex.ret.ok <=> ex.freed > 0)
    /\ [][(C24_StepEnds /\ ex.log[Len(ex.log) - 1].ok /\ ex'.log[Len(ex'.log)].ok)
            => ex'.freed = ex.freed + (ex'.after - ex.before)]_vars

\* the unit _restart_service works on for the services of the contexts
C25_Unit ==
    IF ex.context.service = s_grafana THEN s_grafana_server
    ELSE IF ex.context.service = s_nextcloud THEN s_apache2
    ELSE ex.context.service

\* C25: restart_service verifies what it did.  A restart_service call issues
\* at most the restart command and then one is-active command, both for the
\* unit the lookup table gives for the service name (the name itself when the
\* table has none); it returns success only if both commands succeeded and
\* the output of the second is "active"; with an empty service name it
\* returns failure and issues no command.
C25_RestartVerified ==
    (ex.action = "restart_service" /\ ex.pc # "idle")
        => /\ Len(ex.log) <= 2
           /\ \A k \in 1..Len(ex.log) :
                 /\ ex.log[k].cmd = IF k = 1 THEN "systemctl restart" ELSE "systemctl is-active"
                 /\ ex.log[k].arg = C25_Unit
           /\ (Len(ex.log) = 2) => ex.log[1].ok
           /\ (ex.pc = "done" /\ ex.ret.ok)
                 => /\ Len(ex.log) = 2
                    /\ ex.log[1].ok /\ ex.log[2].ok
                    /\ Strip(Lower(ex.out)) = s_active
           /\ ex.context.service = <<>> => (ex.pc = "done" /\ ~ex.ret.ok /\ ex.log = <<>>)

\* restart_service for grafana has returned success
C25_Witness ==
    /\ ex.action = "restart_service"
    /\ ex.pc = "done"
    /\ ex.context.service = s_grafana
    /\ ex.ret.ok
    /\ ex.log[2].arg = s_grafana_server

\* C26: no success without a command that worked.  A finished call of
\* execute_action that returns success has issued at least one remote
\* command that succeeded.
C26_NoUnverifiedSuccess ==
    (ex.pc = "done" /\ ex.ret.ok) => \E k \in 1..Len(ex.log) : ex.log[k].ok

-----------------------------------------------------------------------------
(* Properties of the pattern store (specification SpecAnalyze) *)

\* the key of the pattern row of an issue
C27_Key(issue) ==
    <<issue.component, issue.severity, (metrics.cpu_usage \div 10) * 10,
      (metrics.memory_usage \div 10) * 10, (metrics.disk_usage \div 10) * 10>>

C27_Emitted(iss, key) == Cardinality({i \in 1..Len(iss) : C27_Key(iss[i]) = key})

C27_Count(p, key) == IF key \in DOMAIN p THEN p[key] ELSE 0

\* C27: pattern learning is an upsert-only tally.  A pass of analyze_metrics
\* adds exactly 1 to the count of the row keyed by (component, severity, cpu,
\* memory and disk bucket) of every issue it returns, creating the row at 1,
\* and leaves every other row as it is; no row goes away and no count goes
\* down, so after the n-th pass over the same snapshot every row of an issue
\* counts n.
C27_UpsertTally ==
    /\ [][(pc = "analyze" /\ pc' = "update_status")
            => /\ DOMAIN patterns \subseteq DOMAIN patterns'
               /\ \A key \in DOMAIN patterns' :
                     /\ C27_Emitted(issues', key) \in {0, 1}
                     /\ patterns'[key] = C27_Count(patterns, key) + C27_Emitted(issues', key)]_vars
    /\ [][\A key \in DOMAIN patterns :
             key \in DOMAIN patterns' /\ patterns'[key] >= patterns[key]]_vars
    /\ [](pc = "update_status"
            => \A i \in 1..Len(issues) :
                  C27_Key(issues[i]) \in DOMAIN patterns /\ patterns[C27_Key(issues[i])] = cycle)

\* the second pass over a snapshot with several issues has counted each of
\* its patterns twice
C27_Witness ==
    /\ pc = "update_status"
    /\ cycle = 2
    /\ Len(issues) >= 2
    /\ Cardinality(DOMAIN patterns) = Len(issues)
    /\ \A i \in 1..Len(issues) : patterns[C27_Key(issues[i])] = 2

-----------------------------------------------------------------------------
(* Properties of get_best_action and the pattern store (specification SpecLearn) *)

\* C28: the pattern store does not influence action selection.  When
\* get_best_action is called again for the same issue with the same history
\* after _learn_from_patterns has written to the pattern store, it returns
\* what it returned before (where the history has one best action, so that
\* the first row of the query is determined).
C28_PatternsNotRead ==
    [][(pc = "best_action" /\ pc' # "best_action" /\ cycle > 1 /\ Cardinality(C11_Best) <= 1)
          => action' = action]_vars

\* the second call has returned the learned action again, with a pattern
\* store that was empty at the first call
C28_Witness ==
    /\ cycle = 2
    /\ pc = "execute"
    /\ DOMAIN patterns # {}
    /\ Cardinality(C11_Best) = 1
    /\ action \in C11_Best
    /\ issues[1].suggested_actions # <<>>
    /\ action # issues[1].suggested_actions[1]

-----------------------------------------------------------------------------
(* Properties of record_recovery_result (specification SpecRecord) *)

\* C29: the history is append-only.  Every call of record_recovery_result
\* adds one row, made of the issue id, the action and the outcome given, at
\* the end of the history and leaves the rows before it as they are, also
\* when the history holds rows of the same issue id; the history has as many
\* rows as calls were made.
C29_AppendOnly ==
    /\ [][(pc = "record" /\ pc' # "record")
            => /\ Len(history') = Len(history) + 1
               /\ SubSeq(history', 1, Len(history)) = history
               /\ history'[Len(history')].issue_id = issues[queue[idx]].issue_id
               /\ history'[Len(history')].action = action
               /\ history'[Len(history')].success = result]_vars
    /\ [][pc # "record" => history' = history]_vars
    /\ [](Len(history) = IF pc = "record" THEN cycle - 1 ELSE cycle)

\* the second call for the same issue id has added a second row
C29_Witness ==
    /\ pc # "record"
    /\ cycle = 2
    /\ Len(history) = 2
    /\ history[1].issue_id = history[2].issue_id
    /\ history[1].action = history[2].action
    /\ history[1].success # history[2].success

-----------------------------------------------------------------------------
(* Properties of the widget status cache (specification SpecWidget) *)

\* a get_status call is made in this step
C30_Call == widget'.calls = widget.calls + 1

\* seconds since the cache was populated (the cached status carries the time
\* at which its check ended)
C30_Age == now - widget.status_cache.timestamp

\* C30: widget status cache.  Once a fresh check has populated the cache, a
\* get_status call without force_refresh made less than cache_duration (30)
\* seconds later returns the cached status with cache_hit set and performs no
\* connectivity check; a call made when cache_duration has elapsed, or with
\* force_refresh, performs a fresh check.
C30_CacheWindow ==
    [][C30_Call =>
        /\ (/\ ~widget'.force_refresh
            /\ widget.status_cache # NoStatus
            /\ C30_Age < CacheDuration)
           => /\ ~widget'.checked
              /\ widget'.ret = [widget.status_cache EXCEPT !.cache_hit = TRUE]
        /\ (\/ widget'.force_refresh
            \/ widget.status_cache # NoStatus /\ C30_Age >= CacheDuration)
           => widget'.checked]_vars

\* C31: a forced refresh is never reported as cached.  Whatever get_status
\* calls were made before, the status get_status(force_refresh=True) returns
\* has cache_hit = false.
C31_ForcedNotCached ==
    (widget.calls > 0 /\ widget.force_refresh) => ~widget.ret.cache_hit

\* a get_status call is made in this step
C32_Call == widget'.calls = widget.calls + 1

\* C32: get_status always returns a status and never raises.  When every
\* connection test and every service probe of the check fails, the returned
\* status is offline; when the fresh check itself fails, the call returns the
\* previously cached status if there is one, and otherwise a status of unknown.
C32_AlwaysAStatus ==
    /\ [](widget.calls > 0 =>
            /\ widget.ret # NoStatus
            /\ widget.ret.status \in ConnectivityStatus
            /\ (/\ widget.checked
                /\ ~widget.failed
                /\ Count(widget.probe.tests) = 0
                /\ Count(widget.probe.services) = 0)
               => widget.ret.status = "offline")
    /\ [][(C32_Call /\ widget'.failed) =>
            /\ widget'.status_cache = widget.status_cache
            /\ widget'.ret = IF widget.status_cache # NoStatus
                             THEN widget.status_cache
                             ELSE WidgetStatus(now, "unknown", 0, widget.last_online_time)]_vars

\* a check that found everything failing returned offline, and a later call
\* whose check raised has returned that cached status
C32_Witness ==
    /\ widget.calls > 1
    /\ widget.failed
    /\ widget.ret = widget.status_cache
    /\ widget.ret.status = "offline"

-----------------------------------------------------------------------------
(* Properties of the recovery phase (specification Spec) *)

\* C33: within a recovery phase every executor invocation is followed, before
\* the next issue is handled, by exactly one recorded outcome that carries the
\* same issue id, the same action and the success value the executor returned;
\* after any number of completed phases the number of history entries equals
\* the number of executor invocations.
C33_ExecuteThenRecord ==
    /\ [][(pc = "execute" /\ pc' # "execute") =>
            /\ pc' = "record"
            /\ recovery_log'.executions = recovery_log.executions + 1
            /\ <<issues', queue', idx', action', history'>>
                 = <<issues, queue, idx, action, history>>]_vars
    /\ [][(pc = "record" /\ pc' \in {"best_action", "finish"}) =>
            /\ Len(history') = Len(history) + 1
            /\ SubSeq(history', 1, Len(history)) = history
            /\ history'[Len(history')].issue_id = issues[queue[idx]].issue_id
            /\ history'[Len(history')].action = action
            /\ history'[Len(history')].success = result]_vars
    /\ [][pc # "record" => history' = history]_vars
    /\ [](~recovery_in_progress => Len(history) = recovery_log.executions)

\* two phases have completed, with an executor invocation in each
C33_Witness ==
    /\ ~recovery_in_progress
    /\ cycle = 2
    /\ pc = "alert"
    /\ Len(history) >= 2
    /\ history[1].success # history[2].success
    /\ recovery_log.executions = Len(history)

\* the issues of the current cycle for which a recovery notification was sent
C34_Notified == {recovery_log.notified[k] : k \in 1..Len(recovery_log.notified)}

\* analyze_metrics has returned the issues of the current cycle
C34_Diagnosed == \E k \in 1..Len(cycle_log) : cycle_log[k].ev = "diagnose"

\* C34: an issue's resolved flag is true only if the executor returned success
\* for that issue in the recovery phase of the current cycle, and a recovery
\* notification is sent for an issue exactly when its action succeeded; issues
\* skipped by cooldown, beyond the top 3, without a candidate action, or whose
\* action failed stay unresolved and produce no recovery notification.
C34_ResolvedIffSucceeded ==
    /\ [](C34_Diagnosed =>
            \A i \in 1..Len(issues) :
               /\ issues[i].resolved <=> i \in C34_Notified
               /\ issues[i].resolved =>
                     /\ \E k \in 1..(idx - 1) :
                           k <= Len(queue) /\ k <= TopIssues /\ queue[k] = i
                     /\ \E k \in 1..Len(exec_log) : exec_log[k].issue = i
                     /\ \E k \in 1..Len(history) :
                           history[k].issue_id = issues[i].issue_id /\ history[k].success)
    /\ [][(pc = "record" /\ pc' # "record" /\ ~result) =>
            /\ issues' = issues
            /\ recovery_log' = recovery_log]_vars
    /\ [][(pc = "record" /\ pc' # "record" /\ result) =>
            /\ issues'[queue[idx]].resolved
            /\ recovery_log'.notified = Append(recovery_log.notified, queue[idx])]_vars

\* C35: a recovery phase skipped by cooldown changes nothing.  current_status
\* keeps the value the status transition of the cycle computed (it does not
\* become recovering), the in-flight flag stays false, last_recovery_time is
\* not stamped again, no history entry is appended and nothing is executed.
C35_SkipChangesNothing ==
    [][(/\ pc = "handle"
        /\ ShouldHandle(issues, recovery_in_progress)
        /\ InCooldown(now, last_recovery_time)
        /\ pc' # "handle")
       => /\ current_status' = current_status
          /\ current_status' # "recovering"
          /\ \E k \in 1..Len(cycle_log) :
                cycle_log[k].ev = "status" /\ cycle_log[k].status = current_status'
          /\ recovery_in_progress' = FALSE
          /\ last_recovery_time' = last_recovery_time
          /\ history' = history
          /\ issues' = issues
          /\ exec_log' = <<>>
          /\ recovery_log' = recovery_log]_vars

\* the second cycle found a critical issue within the cooldown of the first
\* cycle's phase and has skipped its own phase
C35_Witness ==
    /\ cycle = 2
    /\ pc = "alert"
    /\ queue = <<>>
    /\ current_status = "critical"
    /\ ~recovery_in_progress
    /\ last_recovery_time # NoTime
    /\ InCooldown(now, last_recovery_time)
    /\ Len(history) > 0

-----------------------------------------------------------------------------
(* Properties of issue severities (specification SpecAnalyze) *)

\* C36: every issue analyze_metrics produces, for every snapshot, has a
\* severity that is one of the four literals critical, high, medium, low, so
\* the severity sort of the recovery phase is defined for every issue it
\* receives: the key list holds the severity, and the sorted list is the same
\* issues in non-increasing severity.
C36_SeverityLiteral ==
    \A i \in 1..Len(issues) :
        /\ issues[i].severity \in {"critical", "high", "medium", "low"}
        /\ \E k \in 1..Len(SeverityOrder) : SeverityOrder[k] = issues[i].severity
        /\ Len(sorted_issues(issues)) = Len(issues)
        /\ \E p \in 1..Len(issues) : sorted_issues(issues)[p] = i
        /\ \A p \in 1..(Len(issues) - 1) :
              SeverityIndex(issues[sorted_issues(issues)[p]].severity)
                >= SeverityIndex(issues[sorted_issues(issues)[p + 1]].severity)

\* a snapshot has produced issues of three different severities
C36_Witness ==
    /\ pc # "analyze"
    /\ \E i, j, k \in 1..Len(issues) :
          /\ issues[i].severity = "critical"
          /\ issues[j].severity = "high"
          /\ issues[k].severity = "medium"

-----------------------------------------------------------------------------
(* Properties of the dispatch order (specification SpecDispatch) *)

\* the place of an issue's check in analyze_metrics
C37_Rank(issue) ==
    CASE issue.component = s_cpu -> 1
      [] issue.component = s_memory -> 2
      [] issue.component = s_disk -> 3
      [] Take(issue.component, Len(s_service)) = s_service -> 4
      [] Take(issue.component, Len(s_container)) = s_container -> 5
      [] issue.component = s_network -> 6

\* the issues of the highest severity present
C37_Top ==
    {i \in 1..Len(issues) :
        \A j \in 1..Len(issues) :
            SeverityIndex(issues[j].severity) <= SeverityIndex(issues[i].severity)}

\* C37: among issues of equal severity the recovery phase keeps detection
\* order (cpu, memory, disk, services, containers, network): when more than 3
\* issues share the top severity, the 3 dispatched are the first 3 of them in
\* analyze order, and they are handled in that order.
C37_StableDispatch ==
    (recovery_in_progress /\ pc # "handle") =>
        /\ \A i, j \in 1..Len(issues) : i < j => C37_Rank(issues[i]) <= C37_Rank(issues[j])
        /\ \A a, b \in 1..Len(queue) :
              (a < b /\ issues[queue[a]].severity = issues[queue[b]].severity)
              => queue[a] < queue[b]
        /\ Cardinality(C37_Top) > TopIssues =>
              /\ Len(queue) = TopIssues
              /\ \A a \in 1..Len(queue) :
                    /\ queue[a] \in C37_Top
                    /\ Cardinality({i \in C37_Top : i < queue[a]}) = a - 1
        /\ \A k \in 1..Len(exec_log) :
              \E a \in 1..Len(queue) :
                 /\ queue[a] = exec_log[k].issue
                 /\ a <= idx
                 /\ \A l \in 1..(k - 1) :
                       \E c \in 1..(a - 1) : queue[c] = exec_log[l].issue

\* four issues share the top severity and the first three have been executed
C37_Witness ==
    /\ recovery_in_progress
    /\ pc = "finish"
    /\ Cardinality(C37_Top) > TopIssues
    /\ Len(exec_log) = TopIssues
    /\ \A k \in 1..TopIssues : exec_log[k].issue = queue[k]
    /\ \E i \in C37_Top : i > queue[TopIssues]

-----------------------------------------------------------------------------
(* Properties of the dispatched action (specification Spec) *)

\* the candidate actions of an issue
C38_Candidates(issue) ==
    {issue.suggested_actions[k] : k \in 1..Len(issue.suggested_actions)}

\* C38: across any sequence of cycles and recorded outcomes, the action the
\* orchestrator dispatches for an issue is a member of that issue's list of
\* candidate actions: the learned choice never selects an action outside the
\* list fixed by the check that fired.
C38_DispatchedIsCandidate ==
    /\ pc \in {"execute", "record"} => action \in C38_Candidates(issues[queue[idx]])
    /\ \A k \in 1..Len(exec_log) :
          exec_log[k].action \in C38_Candidates(issues[exec_log[k].issue])

\* in the second cycle, with successful outcomes of other actions on record,
\* an action has been dispatched for an issue with several candidates
C38_Witness ==
    /\ cycle = 2
    /\ pc = "record"
    /\ Len(exec_log) >= 2
    /\ \E k \in 1..Len(history) : history[k].success /\ history[k].action # action
    /\ Len(issues[queue[idx]].suggested_actions) >= 2

-----------------------------------------------------------------------------
(* Properties of the error counter (specification SpecCollect) *)

\* C39: every snapshot MetricsCollector.collect returns starts from a fresh
\* error counter of 0 and increments it at most once, so its error counter is
\* at most 1; consequently the offline override (error counter > 5) never
\* fires and current_status is never offline, however many consecutive
\* collections fail.
C39_NeverOffline ==
    /\ metrics.error_count \in {0, 1}
    /\ metrics.error_count <= ErrorCountLimit
    /\ current_status # "offline"

\* the seventh collection in a row has failed and the status has been set
C39_Witness ==
    /\ cycle = ErrorCountLimit + 2
    /\ pc = StepAfter("update_status")
    /\ metrics.error_count = 1
    /\ current_status \in {"healthy", "degraded", "critical"}

\* C40: what is published never reflects recovery.  Every step that writes the
\* status file (UpdateWidget, whether or not the write then raises) publishes a
\* status among healthy, degraded, critical, offline, never recovering or
\* unknown; the published recovery_in_progress is false, even while the
\* monitor's own in-flight flag is set; and every published issue has
\* resolved = false.
C40_Published == update(current_status, metrics, issues)

C40_PublishNeverRecovery ==
    [][UpdateWidget =>
          /\ C40_Published.status \in {"healthy", "degraded", "critical", "offline"}
          /\ ~C40_Published.recovery_in_progress
          /\ Len(C40_Published.issues) = Len(issues)
          /\ \A k \in 1..Len(C40_Published.issues) : ~C40_Published.issues[k].resolved]_vars

\* a later cycle has just published issues, after an earlier cycle recovered
\* (the history holds its record) and left the in-flight flag set
C40_Witness ==
    /\ cycle >= 2
    /\ pc = StepAfter("widget")
    /\ cycle_log # <<>>
    /\ cycle_log[Len(cycle_log)].ev = "publish"
    /\ history # <<>>
    /\ recovery_in_progress
    /\ C40_Published.issues # <<>>
    /\ C40_Published.status \in {"degraded", "critical"}
    /\ ~C40_Published.recovery_in_progress

====
